---------------------------- MODULE Spec2Model ----------------------------
(***************************************************************************)
(* Code knowledge graph (CKG): the on-disk store lifecycle                 *)
(* (trae_agent/tools/ckg/ckg_database.py) and the query facade             *)
(* (trae_agent/tools/ckg_tool.py).                                         *)
(*                                                                         *)
(* Spec        the store lifecycle driven through CKGTool.execute: source  *)
(*             trees that are edited and committed, the path index         *)
(*             storage_info.json, the database files, the facade's cache.  *)
(* SpecTool    the facade alone, with every kind of request.               *)
(* SpecSearch  the 15 search commands applied to a store whose tables are  *)
(*             drawn from a bounded set of rows.                           *)
(* SpecExpire  the store lifecycle over trees that do not change, while    *)
(*             time passes and clear_older_ckg runs.                       *)
(* SpecHash    get_folder_snapshot_hash over the outcomes of its probes.   *)
(* SpecWalk    the file filter of the directory walk of a build.           *)
(* SpecVisit   the language visitors over bounded syntax trees.            *)
(* SpecUpdate  opens and updates of stores over trees that do not change.  *)
(* SpecRace    two processes that open stores at the same time.            *)
(* SpecDirty   Spec begun in a work tree with uncommitted changes.         *)
(* SpecLambda  the JavaScript, Gleam, Swift and Solidity visitors over     *)
(*             functions with and without a name.                          *)
(* SpecInsert  _insert_entry over one entry of every kind.                 *)
(***************************************************************************)
EXTENDS Integers, Sequences, FiniteSets, TLC

VARIABLES
    tree,            \* [path -> [file -> [mtime, ok]]]: the source trees
    clock,           \* modification clock: the stamp of the latest edit
    git_repo,        \* TRUE iff the trees lie in one git work tree
    head,            \* git: the commit HEAD names
    status,          \* git: the files `git status --porcelain` lists
    storage_info,    \* storage_info.json: path -> recorded snapshot hash
    db_files,        \* CKG_DATABASE_PATH: file name (snapshot hash) -> inode
    inodes,          \* live inode -> database content (the tables)
    ckg_databases,   \* CKGTool._ckg_databases: path -> CKGDatabase
    result,          \* what the last execute returned (or raised)
    last,            \* what the last execute did (observation of the run)
    store,           \* SpecSearch, SpecVisit: the tables of the store at hand
    times,           \* [now, mtime]: the day, and database file -> day written
    input            \* SpecHash, SpecWalk, SpecVisit: the input of the function;
                     \* SpecRace: where each process stands in its open

vars == <<tree, clock, git_repo, head, status, storage_info, db_files,
          inodes, ckg_databases, result, last, store, times, input>>

-----------------------------------------------------------------------------
(* Bounds of the model.                                                    *)

\* edits of source files in one behaviour
MaxEdits == 1
\* commits in one behaviour
MaxCommits == 1
\* database inodes that can be live (linked or held open) at once
MaxInodes == 3

-----------------------------------------------------------------------------
(* Values.                                                                 *)

\* Python's None (printed "None" by an f-string)
None == "None"
\* a key missing from the arguments of execute
Absent == "<absent>"

\* the directories that hold a codebase
Paths == {"/p1", "/p2"}
\* every path string a request may carry: the codebases, a regular file, a
\* path that does not exist
PathArgs == Paths \cup {"/file", "/nx"}
\* the source files of a codebase, in the order glob("**/*") yields them
FileOrder(p) == IF p = "/p1" THEN <<"a.py", "b.py">> ELSE <<"a.py">>
Files(p) == {FileOrder(p)[i] : i \in 1..Len(FileOrder(p))}

Tables == {"functions", "classes", "structs", "enums", "interfaces", "traits",
           "modules", "namespaces", "type_aliases", "components", "contracts",
           "extensions", "unions", "generic_types"}

\* no input: the specification at hand applies no function to an input
NoInput == [kind |-> "none"]

\* for sql in SQL_LIST.values(): execute(sql): every table, no row
EmptyDb == [t \in Tables |-> <<>>]


-----------------------------------------------------------------------------
(* The source trees.  A file's content is identified by the stamp of its   *)
(* last modification; `ok` is FALSE for a content on which the language    *)
(* visitor raises (for instance a byte in a definition that is not UTF-8,  *)
(* so that node.text.decode() raises UnicodeDecodeError).                  *)

FileContent == [mtime : 0..MaxEdits, ok : BOOLEAN]

\* the text of a source file: a.py defines a function, b.py a class with one
\* method; the stamp stands for the part of the text an edit changes
FileText(f, c) ==
    IF f = "a.py" THEN "def foo(): return " \o ToString(c.mtime)
    ELSE "class Foo:\n  def bar(self): return " \o ToString(c.mtime)

FunctionEntry(name, file_path, body, start_line, end_line, parent_function, parent_class) ==
    [kind |-> "function", name |-> name, file_path |-> file_path, body |-> body,
     start_line |-> start_line, end_line |-> end_line,
     parent_function |-> parent_function, parent_class |-> parent_class]

ClassEntry(name, file_path, body, start_line, end_line, fields, methods) ==
    [kind |-> "class", name |-> name, file_path |-> file_path, body |-> body,
     start_line |-> start_line, end_line |-> end_line,
     fields |-> fields, methods |-> methods]

\* recursive_visit_python on the syntax tree of a model file: the entries in
\* the order the depth-first walk inserts them
recursive_visit_python(file_path, f, c) ==
    IF f = "a.py"
    THEN << FunctionEntry("foo", file_path, FileText(f, c), 1, 1, None, None) >>
    ELSE << ClassEntry("Foo", file_path, FileText(f, c), 1, 2, None, "- bar(self)"),
            FunctionEntry("bar", file_path,
                          "def bar(self): return " \o ToString(c.mtime), 2, 2, None, "Foo") >>

-----------------------------------------------------------------------------
(* _insert_entry: one INSERT per entry kind, then commit.                  *)

TableOf(entry) ==
    CASE entry.kind = "function" -> "functions"
      [] entry.kind = "class" -> "classes"
      [] entry.kind = "struct" -> "structs"
      [] entry.kind = "enum" -> "enums"
      [] entry.kind = "interface" -> "interfaces"
      [] entry.kind = "trait" -> "traits"
      [] entry.kind = "module" -> "modules"
      [] entry.kind = "namespace" -> "namespaces"
      [] entry.kind = "type_alias" -> "type_aliases"
      [] entry.kind = "component" -> "components"
      [] entry.kind = "contract" -> "contracts"
      [] entry.kind = "extension" -> "extensions"
      [] entry.kind = "union" -> "unions"
      [] entry.kind = "generic_type" -> "generic_types"

\* the row the INSERT statement of the entry's kind writes
RowOf(entry) ==
    LET base == [name |-> entry.name, file_path |-> entry.file_path, body |-> entry.body,
                 start_line |-> entry.start_line, end_line |-> entry.end_line]
        with(r, col, v) == [x \in (DOMAIN r) \cup {col} |-> IF x = col THEN v ELSE r[x]]
    IN  CASE entry.kind = "function" ->
               with(with(base, "parent_function", entry.parent_function),
                    "parent_class", entry.parent_class)
          [] entry.kind \in {"class", "struct"} ->
               with(with(base, "fields", entry.fields), "methods", entry.methods)
          [] entry.kind = "enum" -> with(base, "enum_values", entry.variants)
          [] entry.kind \in {"interface", "trait"} -> with(base, "methods", entry.methods)
          [] entry.kind = "module" -> with(base, "exports", entry.exports)
          [] entry.kind = "namespace" -> with(base, "members", entry.members)
          [] entry.kind = "type_alias" -> with(base, "target_type", entry.target_type)
          [] entry.kind = "component" ->
               with(with(base, "props", entry.props), "methods", entry.methods)
          [] entry.kind = "contract" ->
               with(with(with(base, "functions", entry.functions), "events", entry.events),
                    "modifiers", entry.modifiers)
          [] entry.kind = "extension" ->
               with(with(base, "extended_type", entry.extended_type),
                    "methods", entry.methods)
          [] entry.kind = "union" -> with(base, "fields", entry.variants)
          [] entry.kind = "generic_type" ->
               with(with(base, "type_parameters", entry.type_parameters),
                    "constraints", entry.constraints)

_insert_entry(db, entry) ==
    [db EXCEPT ![TableOf(entry)] = Append(@, RowOf(entry))]

RECURSIVE InsertAll(_, _)
\* the inserts one file's visit makes, in order
InsertAll(db, entries) ==
    IF entries = <<>> THEN db
    ELSE InsertAll(_insert_entry(db, Head(entries)), Tail(entries))

-----------------------------------------------------------------------------
(* Queries (ckg_database.py) and the reports of the facade (ckg_tool.py).  *)

\* the response budget of the tool layer (trae_agent/tools/run.py), scaled
\* to the lengths of the model's texts
MAX_RESPONSE_LEN == 96

\* Python truthiness of an optional text: None and "" are false
Truthy(text) == text # None /\ text # ""

\* faulty variant: every function of that name, whatever its parents
query_function_unfiltered(db, identifier, entry_type) ==
    LET kept == SelectSeq(db["functions"], LAMBDA r : r.name = identifier)
    IN  [i \in 1..Len(kept) |->
            FunctionEntry(kept[i].name, kept[i].file_path, kept[i].body,
                          kept[i].start_line, kept[i].end_line,
                          kept[i].parent_function, kept[i].parent_class)]

\* SELECT ... FROM functions WHERE name = ?, then the filter on record[6]
\* (parent_class) that entry_type asks for
query_function(db, identifier, entry_type) ==
    LET records == SelectSeq(db["functions"], LAMBDA r : r.name = identifier)
        keep(r) == IF entry_type = "function" THEN r.parent_class = None
                   ELSE r.parent_class # None
        kept == SelectSeq(records, keep)
    IN  [i \in 1..Len(kept) |->
            FunctionEntry(kept[i].name, kept[i].file_path, kept[i].body,
                          kept[i].start_line, kept[i].end_line,
                          kept[i].parent_function, kept[i].parent_class)]

\* SELECT ... FROM classes WHERE name = ?
query_class(db, identifier) ==
    LET records == SelectSeq(db["classes"], LAMBDA r : r.name = identifier)
    IN  [i \in 1..Len(records) |->
            ClassEntry(records[i].name, records[i].file_path, records[i].body,
                       records[i].start_line, records[i].end_line,
                       records[i].fields, records[i].methods)]

\* faulty variant: the body is appended whatever print_body says
EntryText_always_body(entry, index, within, l1, l2, print_body) ==
    ToString(index) \o ". " \o entry.file_path \o ":" \o ToString(entry.start_line)
        \o "-" \o ToString(entry.end_line)
        \o (IF within THEN " within class " \o entry.parent_class ELSE "") \o "\n"
        \o (IF l1 # "" /\ Truthy(entry.fields) THEN l1 \o ":\n" \o entry.fields \o "\n" ELSE "")
        \o (IF l2 # "" /\ Truthy(entry.methods) THEN l2 \o ":\n" \o entry.methods \o "\n" ELSE "")
        \o entry.body \o "\n\n"

\* the text one loop iteration appends for `entry`: the location line, the
\* sections whose field is truthy, the body when print_body
EntryText(entry, index, within, l1, l2, print_body) ==
    ToString(index) \o ". " \o entry.file_path \o ":" \o ToString(entry.start_line)
        \o "-" \o ToString(entry.end_line)
        \o (IF within THEN " within class " \o entry.parent_class ELSE "") \o "\n"
        \o (IF l1 # "" /\ Truthy(entry.fields) THEN l1 \o ":\n" \o entry.fields \o "\n" ELSE "")
        \o (IF l2 # "" /\ Truthy(entry.methods) THEN l2 \o ":\n" \o entry.methods \o "\n" ELSE "")
        \o (IF print_body THEN entry.body \o "\n\n" ELSE "")

\* faulty variant: the count is taken as if `index` had not been incremented yet
ClipMarker_not_incremented(n, index) ==
    "\n<response clipped> " \o ToString(n - index) \o " more entries not shown"

\* the marker that ends a clipped report; `index` is already incremented
ClipMarker(n, index) ==
    "\n<response clipped> " \o ToString(n - index + 1) \o " more entries not shown"

RECURSIVE ReportLoop(_, _, _, _, _, _, _, _)
\* for entry in entries: append, index += 1, clip and break over the budget
ReportLoop(output, entries, index, n, within, l1, l2, print_body) ==
    IF index > n THEN output
    ELSE LET out1 == output \o EntryText(entries[index], index, within, l1, l2, print_body)
         IN  IF Len(out1) > MAX_RESPONSE_LEN
             THEN SubSeq(out1, 1, MAX_RESPONSE_LEN) \o ClipMarker(n, index + 1)
             ELSE ReportLoop(out1, entries, index + 1, n, within, l1, l2, print_body)

\* faulty variant: the header and the loop also when nothing matched
Report_without_zero_case(entries, noun, identifier, within, l1, l2, print_body) ==
    ReportLoop("Found " \o ToString(Len(entries)) \o " " \o noun \o " named "
                   \o identifier \o ":\n",
               entries, 1, Len(entries), within, l1, l2, print_body)

\* the body shared by the 15 _search_<kind> methods
Report(entries, noun, identifier, within, l1, l2, print_body) ==
    IF Len(entries) = 0 THEN "No " \o noun \o " named " \o identifier \o " found."
    ELSE ReportLoop("Found " \o ToString(Len(entries)) \o " " \o noun \o " named "
                        \o identifier \o ":\n",
                    entries, 1, Len(entries), within, l1, l2, print_body)

_search_function(db, identifier, print_body) ==
    Report(query_function(db, identifier, "function"), "functions", identifier,
           FALSE, "", "", print_body)

_search_class(db, identifier, print_body) ==
    Report(query_class(db, identifier), "classes", identifier,
           FALSE, "Fields", "Methods", print_body)

_search_class_method(db, identifier, print_body) ==
    Report(query_function(db, identifier, "class_method"), "class methods", identifier,
           TRUE, "", "", print_body)

_search_struct(db, identifier, print_body) ==
    Report(query_class(db, identifier), "structs", identifier,
           FALSE, "Fields", "Methods", print_body)

_search_enum(db, identifier, print_body) ==
    Report(query_class(db, identifier), "enums", identifier,
           FALSE, "Variants", "", print_body)

_search_interface(db, identifier, print_body) ==
    Report(query_class(db, identifier), "interfaces", identifier,
           FALSE, "Properties", "Methods", print_body)

_search_trait(db, identifier, print_body) ==
    Report(query_class(db, identifier), "traits", identifier,
           FALSE, "Associated Types", "Methods", print_body)

_search_module(db, identifier, print_body) ==
    Report(query_class(db, identifier), "modules", identifier,
           FALSE, "Imports", "Exports", print_body)

_search_namespace(db, identifier, print_body) ==
    Report(query_class(db, identifier), "namespaces", identifier,
           FALSE, "Members", "", print_body)

_search_type_alias(db, identifier, print_body) ==
    Report(query_function(db, identifier, "function"), "type aliases", identifier,
           FALSE, "", "", print_body)

_search_component(db, identifier, print_body) ==
    Report(query_class(db, identifier), "components", identifier,
           FALSE, "Props", "Methods", print_body)

_search_contract(db, identifier, print_body) ==
    Report(query_class(db, identifier), "contracts", identifier,
           FALSE, "State Variables", "Functions", print_body)

_search_extension(db, identifier, print_body) ==
    Report(query_class(db, identifier), "extensions", identifier,
           FALSE, "Extended Type", "Methods", print_body)

_search_union(db, identifier, print_body) ==
    Report(query_class(db, identifier), "unions", identifier,
           FALSE, "Variants", "", print_body)

_search_generic_type(db, identifier, print_body) ==
    Report(query_class(db, identifier), "generic types", identifier,
           FALSE, "Type Parameters", "Constraints", print_body)

CKGToolCommands ==
    {"search_function", "search_class", "search_class_method", "search_struct",
     "search_enum", "search_interface", "search_trait", "search_module",
     "search_namespace", "search_type_alias", "search_component", "search_contract",
     "search_extension", "search_union", "search_generic_type"}

\* ToolExecResult, and `raised` for an exception that leaves execute
ToolExecResult(error, output) == [error |-> error, output |-> output, raised |-> FALSE]
Raised == [error |-> None, output |-> None, raised |-> TRUE]

\* match command: ... case _: Invalid command
Dispatch(db, command, identifier, print_body) ==
    CASE command = "search_function" ->
           ToolExecResult(None, _search_function(db, identifier, print_body))
      [] command = "search_class" ->
           ToolExecResult(None, _search_class(db, identifier, print_body))
      [] command = "search_class_method" ->
           ToolExecResult(None, _search_class_method(db, identifier, print_body))
      [] command = "search_struct" ->
           ToolExecResult(None, _search_struct(db, identifier, print_body))
      [] command = "search_enum" ->
           ToolExecResult(None, _search_enum(db, identifier, print_body))
      [] command = "search_interface" ->
           ToolExecResult(None, _search_interface(db, identifier, print_body))
      [] command = "search_trait" ->
           ToolExecResult(None, _search_trait(db, identifier, print_body))
      [] command = "search_module" ->
           ToolExecResult(None, _search_module(db, identifier, print_body))
      [] command = "search_namespace" ->
           ToolExecResult(None, _search_namespace(db, identifier, print_body))
      [] command = "search_type_alias" ->
           ToolExecResult(None, _search_type_alias(db, identifier, print_body))
      [] command = "search_component" ->
           ToolExecResult(None, _search_component(db, identifier, print_body))
      [] command = "search_contract" ->
           ToolExecResult(None, _search_contract(db, identifier, print_body))
      [] command = "search_extension" ->
           ToolExecResult(None, _search_extension(db, identifier, print_body))
      [] command = "search_union" ->
           ToolExecResult(None, _search_union(db, identifier, print_body))
      [] command = "search_generic_type" ->
           ToolExecResult(None, _search_generic_type(db, identifier, print_body))
      [] OTHER -> ToolExecResult("Invalid command: " \o command, None)

-----------------------------------------------------------------------------
(* The snapshot fingerprint.  md5 is modelled as injective: the digest of  *)
(* a text is the text.                                                     *)

get_ckg_database_path(codebase_snapshot_hash) == codebase_snapshot_hash \o ".db"

\* how a git subprocess ends: "ok" (exit 0), "nonzero" (another exit code,
\* nothing on stdout), "unborn" (rev-parse HEAD in a repository without
\* commit: exit 128, the word HEAD on stdout), "raise" (git is missing or the
\* timeout expires: FileNotFoundError, TimeoutExpired)
ProbeOk == [worktree |-> "ok", status |-> "ok", head |-> "ok"]

\* git rev-parse --is-inside-work-tree
is_git_repository(probe) == git_repo /\ probe.worktree = "ok"

RECURSIVE StatusLines(_, _)
\* the stdout of git status --porcelain: a line per modified file
StatusLines(p, i) ==
    IF i > Len(FileOrder(p)) THEN ""
    ELSE (IF <<p, FileOrder(p)[i]>> \in status
          THEN " M " \o SubSeq(p, 2, Len(p)) \o "/" \o FileOrder(p)[i] \o "\n" ELSE "")
         \o StatusLines(p, i + 1)

StatusOutput == StatusLines("/p1", 1) \o StatusLines("/p2", 1)

RECURSIVE MetadataDigest(_, _)
\* hash_md5.update(name), update(str(st_mtime)), update(str(st_size)) per file
MetadataDigest(p, i) ==
    IF i > Len(FileOrder(p)) THEN ""
    ELSE LET f == FileOrder(p)[i]
         IN  f \o ToString(tree[p][f].mtime) \o ToString(Len(FileText(f, tree[p][f])))
             \o MetadataDigest(p, i + 1)

get_file_metadata_hash(p) == "metadata-" \o MetadataDigest(p, 1)

\* the return codes of git status and git rev-parse HEAD are not looked at:
\* only an exception leads to the metadata hash
get_git_status_hash(p, probe) ==
    IF probe.status = "raise" \/ probe.head = "raise" THEN get_file_metadata_hash(p)
    ELSE LET status_stdout == IF probe.status = "ok" THEN StatusOutput ELSE ""
             base_hash == CASE probe.head = "ok" -> ToString(head)
                            [] probe.head = "unborn" -> "HEAD"
                            [] OTHER -> ""
         IN  IF status_stdout = "" THEN "git-clean-" \o base_hash
             ELSE "git-dirty-" \o base_hash \o "-" \o status_stdout

get_folder_snapshot_hash(p, probe) ==
    IF is_git_repository(probe) THEN get_git_status_hash(p, probe)
    ELSE get_file_metadata_hash(p)

-----------------------------------------------------------------------------
(* CKGDatabase: the build and the constructor (open).                      *)

RECURSIVE ConstructFrom(_, _, _)
\* the loop of _construct_ckg from the i-th file on: a visit that raises ends
\* the loop; the rows committed before it stay in the database
ConstructFrom(db, p, i) ==
    IF i > Len(FileOrder(p)) THEN [db |-> db, raised |-> FALSE]
    ELSE LET f == FileOrder(p)[i]
             c == tree[p][f]
         IN  IF ~c.ok THEN [db |-> db, raised |-> TRUE]
             ELSE ConstructFrom(InsertAll(db, recursive_visit_python(p \o "/" \o f, f, c)),
                                p, i + 1)

\* faulty variant: the build visits no file
_construct_ckg_nothing(db, p) == [db |-> db, raised |-> FALSE]

_construct_ckg(db, p) == ConstructFrom(db, p, 1)

\* the lowest free inode
FreeInode ==
    CHOOSE i \in 1..MaxInodes : i \notin DOMAIN inodes /\ \A j \in 1..(i - 1) : j \in DOMAIN inodes

\* the mapping m with key k set to v
Put(m, k, v) == [x \in (DOMAIN m) \cup {k} |-> IF x = k THEN v ELSE m[x]]
\* faulty variant: the key stays
Del_nothing(m, k) == m

\* the mapping m without key k
Del(m, k) == [x \in (DOMAIN m) \ {k} |-> m[x]]

\* faulty variant: the existing database is never found
database_exists_never(files, database_path) == FALSE

\* database_path.exists()
database_exists(files, database_path) == database_path \in DOMAIN files

\* CKGDatabase.__init__: the index, the files and the inodes it leaves, the
\* inode it is connected to, and whether the build ran and raised
CKGDatabase_init(codebase_path, probe) ==
    LET existing == IF codebase_path \in DOMAIN storage_info
                    THEN storage_info[codebase_path] ELSE ""
        current == get_folder_snapshot_hash(codebase_path, probe)
        same == existing = current
        \* else branch: unlink the old database, write the index
        files1 == IF same THEN db_files ELSE Del(db_files, get_ckg_database_path(existing))
        info1 == IF same THEN storage_info ELSE Put(storage_info, codebase_path, current)
        database_path == get_ckg_database_path(IF same THEN existing ELSE current)
        exists == database_exists(files1, database_path)
        ino == IF exists THEN files1[database_path] ELSE FreeInode
        build == _construct_ckg(EmptyDb, codebase_path)
        mtime1 == IF same THEN times.mtime
                  ELSE Del(times.mtime, get_ckg_database_path(existing))
    IN  [storage_info |-> info1,
         mtime |-> IF exists THEN mtime1 ELSE Put(mtime1, database_path, times.now),
         db_files |-> IF exists THEN files1 ELSE Put(files1, database_path, ino),
         inodes |-> IF exists THEN inodes ELSE Put(inodes, ino, build.db),
         conn |-> ino,
         built |-> ~exists,
         raised |-> ~exists /\ build.raised]

\* inodes neither linked under a name nor held open are released
Live(inos, files, dbs) ==
    [i \in {j \in DOMAIN inos : \/ \E n \in DOMAIN files : files[n] = j
                                \/ \E p \in DOMAIN dbs : dbs[p].conn = j} |-> inos[i]]

-----------------------------------------------------------------------------
(* CKGTool.execute.                                                        *)

\* the outcomes of the git probes an open may meet
Probes == {ProbeOk}

\* what the file system holds at a path string
FsKind(path) == IF path \in Paths THEN "dir" ELSE IF path = "/file" THEN "file" ELSE "none"

\* Path(path).exists()
path_exists(path) == FsKind(path) # "none"
\* Path(path).is_dir()
path_is_dir(path) == FsKind(path) = "dir"

\* the observation of a step: the request execute ran on (if the step was a
\* request), whether it constructed a CKGDatabase, whether that one built
Ran(command, path, identifier, print_body, opened, built) ==
    [executed |-> TRUE, command |-> command, path |-> path, identifier |-> identifier,
     print_body |-> print_body, opened |-> opened, built |-> built]
NoRun ==
    [executed |-> FALSE, command |-> None, path |-> None, identifier |-> None,
     print_body |-> None, opened |-> FALSE, built |-> FALSE]

\* the arguments' print_body: bool(value) when the key is present, else True
PrintBody(print_body) == IF print_body = Absent THEN TRUE ELSE print_body = "true"

\* faulty variant: the identifier is checked before the path
ValidationError_identifier_first(command, path, identifier) ==
    IF command = Absent THEN "No command provided for the ckg tool"
    ELSE IF identifier = Absent THEN "No identifier provided for the ckg tool"
    ELSE IF path = Absent THEN "No path provided for the ckg tool"
    ELSE IF ~path_exists(path) THEN "Codebase path " \o path \o " does not exist"
    ELSE IF ~path_is_dir(path) THEN "Codebase path " \o path \o " is not a directory"
    ELSE None

\* the checks that open execute, in their order: the error of the first one
\* that fails, None when the request passes them all
ValidationError(command, path, identifier) ==
    IF command = Absent THEN "No command provided for the ckg tool"
    ELSE IF path = Absent THEN "No path provided for the ckg tool"
    ELSE IF identifier = Absent THEN "No identifier provided for the ckg tool"
    ELSE IF ~path_exists(path) THEN "Codebase path " \o path \o " does not exist"
    ELSE IF ~path_is_dir(path) THEN "Codebase path " \o path \o " is not a directory"
    ELSE None

\* faulty variant: the cache of the facade is never hit
is_cached_never(dbs, path) == FALSE

\* self._ckg_databases.get(codebase_path) is not None
is_cached(dbs, path) == path \in DOMAIN dbs

Execute(command, path, identifier, print_body) ==
    IF ValidationError(command, path, identifier) # None THEN
        /\ result' = ToolExecResult(ValidationError(command, path, identifier), None)
        /\ last' = Ran(command, path, identifier, print_body, FALSE, FALSE)
        /\ UNCHANGED <<storage_info, db_files, inodes, ckg_databases, times>>
    ELSE IF is_cached(ckg_databases, path) THEN
        \* the cached CKGDatabase answers
        /\ result' = Dispatch(inodes[ckg_databases[path].conn], command, identifier,
                              PrintBody(print_body))
        /\ last' = Ran(command, path, identifier, print_body, FALSE, FALSE)
        /\ UNCHANGED <<storage_info, db_files, inodes, ckg_databases, times>>
    ELSE
        \E probe \in Probes :
            /\ \E i \in 1..MaxInodes : i \notin DOMAIN inodes
            /\ LET o == CKGDatabase_init(path, probe)
                   dbs == IF o.raised THEN ckg_databases
                          ELSE Put(ckg_databases, path,
                                   [codebase_path |-> path, conn |-> o.conn])
               IN  /\ storage_info' = o.storage_info
                   /\ times' = [times EXCEPT !.mtime = o.mtime]
                   /\ db_files' = o.db_files
                   /\ ckg_databases' = dbs
                   /\ inodes' = Live(o.inodes, o.db_files, dbs)
                   /\ result' = IF o.raised THEN Raised
                                ELSE Dispatch(o.inodes[o.conn], command, identifier,
                                              PrintBody(print_body))
                   /\ last' = Ran(command, path, identifier, print_body, TRUE, o.built)

-----------------------------------------------------------------------------
(* The environment: edits and commits of the source trees, and a facade    *)
(* that is discarded and created again.                                    *)

\* a source file is rewritten; `ok` tells whether its visitor will succeed
Edit(p, f, ok) ==
    /\ clock < MaxEdits
    /\ clock' = clock + 1
    /\ tree' = [tree EXCEPT ![p][f] = [mtime |-> clock + 1, ok |-> ok]]
    /\ status' = IF git_repo THEN status \cup {<<p, f>>} ELSE status
    /\ result' = ToolExecResult(None, None)
    /\ last' = NoRun
    /\ UNCHANGED <<git_repo, head, storage_info, db_files, inodes, ckg_databases, store,
                   times, input>>

\* git commit -a
Commit ==
    /\ git_repo
    /\ status # {}
    /\ head < MaxCommits
    /\ head' = head + 1
    /\ status' = {}
    /\ result' = ToolExecResult(None, None)
    /\ last' = NoRun
    /\ UNCHANGED <<tree, clock, git_repo, storage_info, db_files, inodes, ckg_databases,
                   store, times, input>>

\* CKGTool.__init__ of a new facade; the old one and its stores are discarded
\* (CKGDatabase.__del__ closes their connections)
NewTool ==
    /\ ckg_databases # <<>>
    /\ ckg_databases' = <<>>
    /\ inodes' = Live(inodes, db_files, <<>>)
    /\ result' = ToolExecResult(None, None)
    /\ last' = NoRun
    /\ UNCHANGED <<tree, clock, git_repo, head, status, storage_info, db_files, store,
                   times, input>>

\* a request that passes the validation of its arguments: it reaches the
\* store of a codebase
Request ==
    /\ \E command \in {"search_function", "invalid_command"}, path \in Paths :
            Execute(command, path, "foo", "false")
    /\ UNCHANGED <<tree, clock, git_repo, head, status, store, input>>

\* any request: each argument present or missing, every kind of path
AnyRequest ==
    /\ \E command \in {"search_function", "search_class", "invalid_command", Absent},
          path \in PathArgs \cup {Absent},
          identifier \in {"foo", Absent},
          print_body \in {"false", Absent} :
            Execute(command, path, identifier, print_body)
    /\ UNCHANGED <<tree, clock, git_repo, head, status, store, input>>

Init ==
    /\ tree = [p \in Paths |-> [f \in Files(p) |-> [mtime |-> 0, ok |-> TRUE]]]
    /\ clock = 0
    /\ git_repo \in BOOLEAN
    /\ head = 0
    /\ status = {}
    /\ storage_info = <<>>
    /\ db_files = <<>>
    /\ inodes = <<>>
    /\ ckg_databases = <<>>
    /\ result = ToolExecResult(None, None)
    /\ last = NoRun
    /\ store = EmptyDb
    /\ times = [now |-> 0, mtime |-> <<>>]
    /\ input = NoInput

Next ==
    \/ \E p \in Paths, ok \in BOOLEAN : \E f \in Files(p) : Edit(p, f, ok)
    \/ Commit
    \/ NewTool
    \/ Request

Spec == Init /\ [][Next]_vars

\* time: days; the steps in which days pass, and the last day of a behaviour
TickDays == 4
MaxNow == 12

\* 60 * 60 * 24 * 7 seconds, in days
CKG_DATABASE_EXPIRY_TIME == 7

\* days pass
Tick ==
    /\ times.now + TickDays <= MaxNow
    /\ times' = [times EXCEPT !.now = @ + TickDays]
    /\ result' = ToolExecResult(None, None)
    /\ last' = NoRun
    /\ UNCHANGED <<tree, clock, git_repo, head, status, storage_info, db_files, inodes,
                   ckg_databases, store, input>>

\* clear_older_ckg: every .db file written more than the expiry time ago is
\* unlinked; the index is not touched
clear_older_ckg ==
    LET older == {n \in DOMAIN db_files :
                     times.mtime[n] < times.now - CKG_DATABASE_EXPIRY_TIME}
        files == [n \in (DOMAIN db_files) \ older |-> db_files[n]]
    IN  /\ db_files' = files
        /\ times' = [times EXCEPT !.mtime = [n \in DOMAIN files |-> times.mtime[n]]]
        /\ inodes' = Live(inodes, files, ckg_databases)
        /\ result' = ToolExecResult(None, None)
        /\ last' = NoRun
        /\ UNCHANGED <<tree, clock, git_repo, head, status, storage_info, ckg_databases,
                       store, input>>

\* the store lifecycle over trees that do not change, with expiry
NextExpire ==
    \/ Request
    \/ NewTool
    \/ Tick
    \/ clear_older_ckg

SpecExpire == Init /\ [][NextExpire]_vars

\* the outcomes of the three git subprocesses
AllProbes ==
    [worktree : {"ok", "nonzero", "raise"}, status : {"ok", "nonzero", "raise"},
     head : {"ok", "nonzero", "unborn", "raise"}]

\* a directory in any state of its work tree
InitHash ==
    /\ tree = [p \in Paths |-> [f \in Files(p) |-> [mtime |-> 0, ok |-> TRUE]]]
    /\ clock = 0
    /\ git_repo \in BOOLEAN
    /\ head \in 0..MaxCommits
    /\ status \in IF git_repo THEN SUBSET {<<"/p1", "a.py">>, <<"/p2", "a.py">>} ELSE {{}}
    /\ storage_info = <<>>
    /\ db_files = <<>>
    /\ inodes = <<>>
    /\ ckg_databases = <<>>
    /\ result = ToolExecResult(None, None)
    /\ last = NoRun
    /\ store = EmptyDb
    /\ times = [now |-> 0, mtime |-> <<>>]
    /\ input = NoInput

\* get_folder_snapshot_hash(folder_path) under the outcomes `probe`
Hash(p, probe) ==
    /\ input' = [kind |-> "hash", path |-> p, probe |-> probe]
    /\ result' = ToolExecResult(None, get_folder_snapshot_hash(p, probe))
    /\ UNCHANGED <<tree, clock, git_repo, head, status, storage_info, db_files, inodes,
                   ckg_databases, last, store, times>>

NextHash == \E p \in Paths, probe \in AllProbes : Hash(p, probe)

SpecHash == InitHash /\ [][NextHash]_vars

\* the facade alone, over source trees that do not change
NextTool ==
    \/ NewTool
    \/ AnyRequest

SpecTool == Init /\ [][NextTool]_vars

-----------------------------------------------------------------------------
(* SpecSearch: the search commands on a populated store.                   *)

\* rows per table of the store that is searched
MaxRows == 2

\* rows of the functions table: two free functions, a function nested in a
\* function, a method
FunctionRows ==
    { RowOf(FunctionEntry("f", "/p/a.py", "def f(): 1", 1, 1, None, None)),
      RowOf(FunctionEntry("f", "/p/e.py", "def f(): 4", 2, 2, None, None)),
      RowOf(FunctionEntry("f", "/p/a.py", "def f(): return 2222222222222", 3, 4, "g", None)),
      RowOf(FunctionEntry("f", "/p/b.py", "def f(self): return 3333333333333333", 7, 8,
                          None, "K")) }

ClassRows ==
    { RowOf(ClassEntry("f", "/p/c.py", "class f: pass", 5, 5, None, None)),
      RowOf(ClassEntry("f", "/p/d.py", "class f:\n x = 1\n def m(self): 1", 1, 3,
                       "- x", "- m(self)")) }

StructRows ==
    { RowOf([kind |-> "struct", name |-> "f", file_path |-> "/p/s.rs",
             body |-> "struct f { x: u8 }", start_line |-> 2, end_line |-> 2,
             fields |-> "- x: u8", methods |-> None]) }

SeqsUpTo(S, n) == UNION { [1..k -> S] : k \in 0..n }

InitSearch ==
    /\ tree = [p \in Paths |-> [f \in Files(p) |-> [mtime |-> 0, ok |-> TRUE]]]
    /\ clock = 0
    /\ git_repo = FALSE
    /\ head = 0
    /\ status = {}
    /\ storage_info = <<>>
    /\ db_files = <<>>
    /\ inodes = <<>>
    /\ ckg_databases = <<>>
    /\ result = ToolExecResult(None, None)
    /\ last = NoRun
    /\ times = [now |-> 0, mtime |-> <<>>]
    /\ input = NoInput
    /\ \E fs \in SeqsUpTo(FunctionRows, MaxRows), cs \in SeqsUpTo(ClassRows, 1),
          ss \in SeqsUpTo(StructRows, 1) :
            store = [EmptyDb EXCEPT !["functions"] = fs, !["classes"] = cs,
                                    !["structs"] = ss]

\* the match of execute on a store that is open
Search(command, identifier, print_body) ==
    /\ result' = Dispatch(store, command, identifier, PrintBody(print_body))
    /\ last' = Ran(command, "/p", identifier, print_body, FALSE, FALSE)
    /\ UNCHANGED <<tree, clock, git_repo, head, status, storage_info, db_files, inodes,
                   ckg_databases, store, times, input>>

NextSearch ==
    \E command \in CKGToolCommands, identifier \in {"f", "h"},
       print_body \in {"true", "false", Absent} :
        Search(command, identifier, print_body)

SpecSearch == InitSearch /\ [][NextSearch]_vars


-----------------------------------------------------------------------------
(* Helpers of the properties.                                              *)

\* text t occurs in text s
Contains(s, t) ==
    \E i \in 1..(Len(s) - Len(t) + 1) : SubSeq(s, i, i + Len(t) - 1) = t

StartsWith(s, t) == Len(s) >= Len(t) /\ SubSeq(s, 1, Len(t)) = t

\* the snapshot hash an open of p computes in this state
Fingerprint(p) == get_folder_snapshot_hash(p, ProbeOk)

\* the database a build of p's tree, as it stands, would leave
FullBuild(p) == _construct_ckg(EmptyDb, p)

\* the step opened a store for p (constructed a CKGDatabase)
OpenedFor(p) == last'.executed /\ last'.opened /\ last'.path = p

-----------------------------------------------------------------------------
(* C1: an open of a path whose current fingerprint equals the recorded one,*)
(* while the database file of that fingerprint exists, connects to that    *)
(* file without building: the index and the files stay as they are, no row *)
(* is inserted, and the store answers with every row of the earlier build. *)
C1_ReopenReuses ==
    [][\A p \in Paths :
        ( /\ OpenedFor(p)
          /\ p \in DOMAIN storage_info
          /\ storage_info[p] = Fingerprint(p)
          /\ get_ckg_database_path(storage_info[p]) \in DOMAIN db_files )
        => LET ino == db_files[get_ckg_database_path(storage_info[p])]
           IN  /\ ~result'.raised
               /\ ~last'.built
               /\ p \in DOMAIN ckg_databases'
               /\ ckg_databases'[p].conn = ino
               /\ inodes'[ino] = inodes[ino]
               /\ db_files' = db_files
               /\ storage_info' = storage_info]_vars

\* a second open of /p1 reused the database an earlier open built for it
C1_Witness ==
    /\ last.executed /\ last.opened /\ ~last.built /\ last.path = "/p1"
    /\ last.command = "search_function"
    /\ "/p1" \in DOMAIN ckg_databases
    /\ inodes[ckg_databases["/p1"].conn] = FullBuild("/p1").db
    /\ StartsWith(result.output, "Found 1 functions named foo")

-----------------------------------------------------------------------------
(* C2: an open of a path whose current fingerprint differs from the        *)
(* recorded one deletes the database file of the recorded fingerprint,     *)
(* records the new fingerprint and runs a full build, so that the store it *)
(* returns holds exactly the entities of the current tree.  (Stated for    *)
(* the trees every file of which can be visited, and the opens that        *)
(* return.)                                                                *)
C2_StaleRebuilt ==
    [][\A p \in Paths :
        ( /\ OpenedFor(p)
          /\ ~result'.raised
          /\ \A f \in Files(p) : tree[p][f].ok
          /\ p \in DOMAIN storage_info
          /\ storage_info[p] # Fingerprint(p) )
        => /\ get_ckg_database_path(storage_info[p]) \notin DOMAIN db_files'
           /\ storage_info'[p] = Fingerprint(p)
           /\ last'.built
           /\ inodes'[ckg_databases'[p].conn] = FullBuild(p).db]_vars

-----------------------------------------------------------------------------
(* C7: a build in which the visit of one file fails goes on to the next    *)
(* file: open returns normally and every file whose visit succeeds is      *)
(* indexed.                                                                *)

\* every entry the visit of file f of p yields is a row of db
Indexed(db, p, f) ==
    LET entries == recursive_visit_python(p \o "/" \o f, f, tree[p][f])
    IN  \A i \in 1..Len(entries) :
            \E j \in 1..Len(db[TableOf(entries[i])]) :
                db[TableOf(entries[i])][j] = RowOf(entries[i])

C7_BuildSurvivesBadFile ==
    (last.executed /\ last.opened /\ last.built)
    => /\ ~result.raised
       /\ last.path \in DOMAIN ckg_databases
       /\ \A f \in Files(last.path) :
            tree[last.path][f].ok
            => Indexed(inodes[ckg_databases[last.path].conn], last.path, f)

-----------------------------------------------------------------------------
(* C8: when a build fails partway, the index does not record the new       *)
(* fingerprint for the partially built database, so that a later open of   *)
(* the unchanged tree does not reuse it: after an open that raised, the    *)
(* index does not name an existing database file for the path's current    *)
(* fingerprint.                                                            *)
C8_IndexNotCorrupted ==
    (last.executed /\ last.opened /\ result.raised)
    => ~( /\ last.path \in DOMAIN storage_info
          /\ storage_info[last.path] = Fingerprint(last.path)
          /\ get_ckg_database_path(storage_info[last.path]) \in DOMAIN db_files )

-----------------------------------------------------------------------------
(* C5: execute checks, in this order, that command, path and identifier    *)
(* are present, that path exists and that it is a directory; the first     *)
(* check that fails gives the result: an error with that check's own       *)
(* message and no output, returned without opening a store and without     *)
(* changing the cache of the facade (or the index and the files).          *)

ValidationMessages ==
    <<"No command provided", "No path provided", "No identifier provided",
      "does not exist", "is not a directory">>

\* the index in ValidationMessages of the first check request l fails, 0 when
\* it passes them all
FirstFailure(l) ==
    IF l.command = Absent THEN 1
    ELSE IF l.path = Absent THEN 2
    ELSE IF l.identifier = Absent THEN 3
    ELSE IF FsKind(l.path) = "none" THEN 4
    ELSE IF FsKind(l.path) = "file" THEN 5
    ELSE 0

C5_ValidationOrder ==
    [][(last'.executed /\ FirstFailure(last') # 0)
       => /\ ~result'.raised
          /\ result'.error # None
          /\ \A k \in 1..Len(ValidationMessages) :
                Contains(result'.error, ValidationMessages[k]) <=> k = FirstFailure(last')
          /\ result'.output = None
          /\ ~last'.opened
          /\ UNCHANGED <<ckg_databases, storage_info, db_files, inodes>>]_vars

\* a request without path and identifier was answered while a store was cached
C5_Witness ==
    /\ last.executed /\ last.command # Absent /\ last.path = Absent
    /\ last.identifier = Absent
    /\ Contains(result.error, "No path provided")
    /\ ckg_databases # <<>>

-----------------------------------------------------------------------------
(* C6: a request whose command is none of the 15 search commands is        *)
(* answered with an 'Invalid command' error before any store is opened,    *)
(* fingerprinted or built: the cache of the facade, the index and the      *)
(* database files stay as they are.                                        *)
C6_InvalidCommandFirst ==
    [][( /\ last'.executed
         /\ last'.command \notin CKGToolCommands \cup {Absent}
         /\ FirstFailure(last') = 0 )
       => /\ result'.error # None
          /\ Contains(result'.error, "Invalid command")
          /\ ~last'.opened
          /\ UNCHANGED <<ckg_databases, storage_info, db_files, inodes>>]_vars

-----------------------------------------------------------------------------
(* Helpers of the properties on reports.                                   *)

\* text s ends with text t
EndsWith(s, t) == Len(s) >= Len(t) /\ SubSeq(s, Len(s) - Len(t) + 1, Len(s)) = t

\* the table that stores the kind a command names
KindTable(command) ==
    CASE command \in {"search_function", "search_class_method"} -> "functions"
      [] command = "search_class" -> "classes"
      [] command = "search_struct" -> "structs"
      [] command = "search_enum" -> "enums"
      [] command = "search_interface" -> "interfaces"
      [] command = "search_trait" -> "traits"
      [] command = "search_module" -> "modules"
      [] command = "search_namespace" -> "namespaces"
      [] command = "search_type_alias" -> "type_aliases"
      [] command = "search_component" -> "components"
      [] command = "search_contract" -> "contracts"
      [] command = "search_extension" -> "extensions"
      [] command = "search_union" -> "unions"
      [] command = "search_generic_type" -> "generic_types"

\* the location line of a stored row, as a report prints it after the index
Location(r) ==
    ". " \o r.file_path \o ":" \o ToString(r.start_line) \o "-" \o ToString(r.end_line)

\* the last report lists the row
Reported(r) == result.output # None /\ Contains(result.output, Location(r))

\* the last report was clipped
Clipped == result.output # None /\ Contains(result.output, "<response clipped>")

\* the entries the method of the command gets from its query: the matches
\* its 'Found <n>' header counts
Matches(db, command, identifier) ==
    IF command \in {"search_function", "search_type_alias"}
    THEN query_function(db, identifier, "function")
    ELSE IF command = "search_class_method"
    THEN query_function(db, identifier, "class_method")
    ELSE query_class(db, identifier)

\* a search ran and its query matched
Found == last.executed /\ Len(Matches(store, last.command, last.identifier)) > 0

-----------------------------------------------------------------------------
(* C3: the report of search_<kind> lists exactly the stored entities of    *)
(* that kind whose name is the identifier: no row of another kind's table  *)
(* is listed, and (for the kinds other than Function, in a report that is  *)
(* not clipped) every row of the kind's table with that name is listed.    *)
C3_ExactKind ==
    last.executed
    => \A t \in Tables : \A i \in 1..Len(store[t]) :
          LET r == store[t][i]
          IN  /\ Reported(r) => (t = KindTable(last.command) /\ r.name = last.identifier)
              /\ ( /\ t = KindTable(last.command)
                   /\ t # "functions"
                   /\ r.name = last.identifier
                   /\ ~Clipped )
                 => Reported(r)

-----------------------------------------------------------------------------
(* C4 as stated: search_function lists only the Function rows whose        *)
(* parent_function and parent_class are both null, search_class_method     *)
(* only the rows that have a parent, and no row is listed by both.         *)

\* no row of the functions table is listed by both commands
FunctionReportsDisjoint ==
    \A i \in 1..Len(store["functions"]) : \A print_body \in BOOLEAN :
        LET r == store["functions"][i]
        IN  ~( /\ Contains(_search_function(store, r.name, print_body), Location(r))
               /\ Contains(_search_class_method(store, r.name, print_body), Location(r)) )

C4_NoParentOnly ==
    /\ FunctionReportsDisjoint
    /\ last.executed
       => \A i \in 1..Len(store["functions"]) :
            LET r == store["functions"][i]
            IN  /\ (last.command = "search_function" /\ Reported(r))
                   => (r.parent_function = None /\ r.parent_class = None)
                /\ (last.command = "search_class_method" /\ Reported(r))
                   => (r.parent_function # None \/ r.parent_class # None)

(* C4, amended: search_function lists only the Function rows whose         *)
(* parent_class is null (free functions and functions nested in            *)
(* functions), search_class_method only the rows whose parent_class is     *)
(* not null, and no row is listed by both.                                 *)
C4_ByParentClass ==
    /\ FunctionReportsDisjoint
    /\ last.executed
       => \A i \in 1..Len(store["functions"]) :
            LET r == store["functions"][i]
            IN  /\ (last.command = "search_function" /\ Reported(r))
                   => r.parent_class = None
                /\ (last.command = "search_class_method" /\ Reported(r))
                   => r.parent_class # None

\* search_function ran on a store holding a nested function and a method of
\* the name: it listed the nested function, not the method
C4_Witness ==
    /\ last.executed /\ last.command = "search_function" /\ last.identifier = "f"
    /\ \E i, j \in 1..Len(store["functions"]) :
          /\ store["functions"][i].parent_function # None
          /\ store["functions"][j].parent_class # None
          /\ Reported(store["functions"][i])
          /\ ~Reported(store["functions"][j])

-----------------------------------------------------------------------------
(* C9 as stated: with print_body false the report holds the body of no     *)
(* matched entity; with print_body true, or omitted, it holds the complete *)
(* body of every matched entity its header counts.                         *)
C9_BodiesByFlag ==
    Found
    => LET entries == Matches(store, last.command, last.identifier)
       IN  \A i \in 1..Len(entries) :
              Contains(result.output, entries[i].body) <=> last.print_body # "false"

(* C9, amended: with print_body false the report holds the body of no      *)
(* matched entity; with print_body true, or omitted, a report that is not  *)
(* clipped holds the complete body of every matched entity, and a report   *)
(* clipped with '<k> more entries not shown' holds the complete body of    *)
(* every matched entity but the last k + 1.                                *)
C9_BodiesUnlessClipped ==
    Found
    => LET entries == Matches(store, last.command, last.identifier)
           n == Len(entries)
       IN  IF last.print_body = "false"
           THEN \A i \in 1..n : ~Contains(result.output, entries[i].body)
           ELSE /\ ~Clipped => \A i \in 1..n : Contains(result.output, entries[i].body)
                /\ \A k \in 0..(n - 1) :
                      EndsWith(result.output,
                               "<response clipped> " \o ToString(k) \o " more entries not shown")
                      => \A i \in 1..(n - k - 1) : Contains(result.output, entries[i].body)

\* a report with bodies, not clipped, of two matches with different bodies
C9_Witness ==
    /\ Found /\ last.print_body = "true" /\ ~Clipped
    /\ LET entries == Matches(store, last.command, last.identifier)
       IN  /\ Len(entries) = 2
           /\ entries[1].body # entries[2].body
           /\ Contains(result.output, entries[1].body)
           /\ Contains(result.output, entries[2].body)

-----------------------------------------------------------------------------
(* C10: when the report accumulated over the matches exceeds               *)
(* MAX_RESPONSE_LEN, the output is its first MAX_RESPONSE_LEN characters   *)
(* followed by the '<response clipped>' marker, no further match is        *)
(* appended, and the number in the marker is the number of matches not yet *)
(* appended (between 0 and total - 1); when the budget is never exceeded   *)
(* the output is the whole report, without marker, of length at most       *)
(* MAX_RESPONSE_LEN.                                                       *)

\* the plural a command's header uses
Noun(command) ==
    CASE command = "search_function" -> "functions"
      [] command = "search_class" -> "classes"
      [] command = "search_class_method" -> "class methods"
      [] command = "search_struct" -> "structs"
      [] command = "search_enum" -> "enums"
      [] command = "search_interface" -> "interfaces"
      [] command = "search_trait" -> "traits"
      [] command = "search_module" -> "modules"
      [] command = "search_namespace" -> "namespaces"
      [] command = "search_type_alias" -> "type aliases"
      [] command = "search_component" -> "components"
      [] command = "search_contract" -> "contracts"
      [] command = "search_extension" -> "extensions"
      [] command = "search_union" -> "unions"
      [] command = "search_generic_type" -> "generic types"

\* the labels of the two sections a command prints per entry ("" for none)
Sections(command) ==
    CASE command \in {"search_function", "search_class_method", "search_type_alias"} -> <<"", "">>
      [] command \in {"search_class", "search_struct"} -> <<"Fields", "Methods">>
      [] command \in {"search_enum", "search_union"} -> <<"Variants", "">>
      [] command = "search_interface" -> <<"Properties", "Methods">>
      [] command = "search_trait" -> <<"Associated Types", "Methods">>
      [] command = "search_module" -> <<"Imports", "Exports">>
      [] command = "search_namespace" -> <<"Members", "">>
      [] command = "search_component" -> <<"Props", "Methods">>
      [] command = "search_contract" -> <<"State Variables", "Functions">>
      [] command = "search_extension" -> <<"Extended Type", "Methods">>
      [] command = "search_generic_type" -> <<"Type Parameters", "Constraints">>

RECURSIVE Accumulated(_, _, _, _, _)
\* the report after the k-th match was appended: the header and k entries
Accumulated(command, identifier, entries, k, print_body) ==
    IF k = 0
    THEN "Found " \o ToString(Len(entries)) \o " " \o Noun(command) \o " named "
             \o identifier \o ":\n"
    ELSE Accumulated(command, identifier, entries, k - 1, print_body)
             \o EntryText(entries[k], k, command = "search_class_method",
                          Sections(command)[1], Sections(command)[2], print_body)

C10_Truncation ==
    Found
    => LET entries == Matches(store, last.command, last.identifier)
           n == Len(entries)
           acc(k) == Accumulated(last.command, last.identifier, entries, k,
                                 PrintBody(last.print_body))
           over == {k \in 1..n : Len(acc(k)) > MAX_RESPONSE_LEN}
       IN  IF over # {}
           THEN LET k == CHOOSE j \in over : \A h \in over : j <= h
                IN  /\ n - k \in 0..(n - 1)
                    /\ result.output =
                          SubSeq(acc(k), 1, MAX_RESPONSE_LEN) \o "\n<response clipped> "
                              \o ToString(n - k) \o " more entries not shown"
           ELSE /\ result.output = acc(n)
                /\ ~Clipped
                /\ Len(result.output) <= MAX_RESPONSE_LEN

\* a report clipped at the first of two matches: one more entry not shown
C10_Witness ==
    /\ Found
    /\ Len(Matches(store, last.command, last.identifier)) = 2
    /\ Len(result.output) > MAX_RESPONSE_LEN
    /\ EndsWith(result.output, "\n<response clipped> 1 more entries not shown")

-----------------------------------------------------------------------------
(* C11: a search for an identifier that no stored entity has (and, for the *)
(* commands on functions, methods and classes, a search that no stored     *)
(* entity of the kind matches) returns a result without error whose output *)
(* is exactly 'No <kind>s named <identifier> found.', with no entity line. *)

\* no row of any table has the name
Nonexistent(identifier) ==
    \A t \in Tables : \A i \in 1..Len(store[t]) : store[t][i].name # identifier

\* no row of the command's table (of its half of the functions table) has
\* the name
NoneOfKind(command, identifier) ==
    \A i \in 1..Len(store[KindTable(command)]) :
        LET r == store[KindTable(command)][i]
        IN  \/ r.name # identifier
            \/ command = "search_function" /\ r.parent_class # None
            \/ command = "search_class_method" /\ r.parent_class = None

C11_ZeroMatch ==
    ( /\ last.executed
      /\ \/ Nonexistent(last.identifier)
         \/ /\ last.command \in {"search_function", "search_class", "search_class_method"}
            /\ NoneOfKind(last.command, last.identifier) )
    => /\ ~result.raised
       /\ result.error = None
       /\ result.output = "No " \o Noun(last.command) \o " named " \o last.identifier
                              \o " found."
       /\ \A t \in Tables : \A i \in 1..Len(store[t]) : ~Reported(store[t][i])

\* search_class_method found no method h in a store that holds entities
C11_Witness ==
    /\ last.executed /\ last.command = "search_class_method" /\ last.identifier = "h"
    /\ Len(store["functions"]) > 0
    /\ result.error = None
    /\ result.output = "No class methods named h found."

-----------------------------------------------------------------------------
(* C15: when the database file of a path is gone (clear_older_ckg deleted  *)
(* it) while the index still records the current fingerprint of the path,  *)
(* the next open of the path creates the database file again with all the  *)
(* tables and runs a full build: the store it returns holds the entities   *)
(* of the tree, and the index is as it was.                                *)
C15_ExpiredRebuilt ==
    [][\A p \in Paths :
        ( /\ OpenedFor(p)
          /\ p \in DOMAIN storage_info
          /\ storage_info[p] = Fingerprint(p)
          /\ get_ckg_database_path(storage_info[p]) \notin DOMAIN db_files )
        => LET database_path == get_ckg_database_path(storage_info[p])
           IN  /\ last'.built
               /\ storage_info' = storage_info
               /\ database_path \in DOMAIN db_files'
               /\ DOMAIN inodes'[db_files'[database_path]] = Tables
               /\ ~result'.raised
                  => /\ ckg_databases'[p].conn = db_files'[database_path]
                     /\ inodes'[db_files'[database_path]] = FullBuild(p).db
                     /\ Len(inodes'[db_files'[database_path]]["functions"]) > 0]_vars

\* clear_older_ckg has deleted the database file of /p1, whose index entry
\* still records the current fingerprint
C15_Expired ==
    /\ times.now > CKG_DATABASE_EXPIRY_TIME
    /\ "/p1" \in DOMAIN storage_info
    /\ storage_info["/p1"] = Fingerprint("/p1")
    /\ get_ckg_database_path(storage_info["/p1"]) \notin DOMAIN db_files
    /\ DOMAIN db_files # {}

-----------------------------------------------------------------------------
-----------------------------------------------------------------------------
(* C14: the fingerprint is a git-clean- or git-dirty- fingerprint only     *)
(* when every probe succeeded (work tree, status, HEAD); when a probe      *)
(* fails (git missing, timeout, exit code other than 0) it is the          *)
(* metadata- fingerprint; no failure of a probe reaches the caller.        *)
C14_GitOnlyWhenProbesSucceed ==
    input.kind = "hash"
    => /\ ~result.raised /\ result.error = None
       /\ IF git_repo /\ input.probe = ProbeOk
          THEN StartsWith(result.output, "git-clean-")
               \/ StartsWith(result.output, "git-dirty-")
          ELSE result.output = get_file_metadata_hash(input.path)

-----------------------------------------------------------------------------
(* The language visitors (parsers/*_parser.py) over syntax trees.  A tree  *)
(* is a record [type, name, start_line, end_line, children]: the node      *)
(* type tree-sitter reports, the text of the name child, the 1-based line  *)
(* range, and the member nodes in source order (the body node of a class   *)
(* is flattened into its children).                                        *)

\* the deepest nesting of declarations in a model file
MaxDepth == 4

StructEntry(name, file_path, body, start_line, end_line, fields, methods) ==
    [kind |-> "struct", name |-> name, file_path |-> file_path, body |-> body,
     start_line |-> start_line, end_line |-> end_line,
     fields |-> fields, methods |-> methods]

InterfaceEntry(name, file_path, body, start_line, end_line, methods) ==
    [kind |-> "interface", name |-> name, file_path |-> file_path, body |-> body,
     start_line |-> start_line, end_line |-> end_line, methods |-> methods]

TraitEntry(name, file_path, body, start_line, end_line, methods) ==
    [kind |-> "trait", name |-> name, file_path |-> file_path, body |-> body,
     start_line |-> start_line, end_line |-> end_line, methods |-> methods]

EnumEntry(name, file_path, body, start_line, end_line, variants, parent_class) ==
    [kind |-> "enum", name |-> name, file_path |-> file_path, body |-> body,
     start_line |-> start_line, end_line |-> end_line,
     variants |-> variants, parent_class |-> parent_class]

NamespaceEntry(name, file_path, body, start_line, end_line, members) ==
    [kind |-> "namespace", name |-> name, file_path |-> file_path, body |-> body,
     start_line |-> start_line, end_line |-> end_line, members |-> members]

ComponentEntry(name, file_path, body, start_line, end_line, props, methods) ==
    [kind |-> "component", name |-> name, file_path |-> file_path, body |-> body,
     start_line |-> start_line, end_line |-> end_line,
     props |-> props, methods |-> methods]

\* an ambient parent that is not set (the default None of the parameters)
NoParent == [name |-> None, start_line |-> 0, end_line |-> 0]

\* the ambient context a visitor call carries: its parent_* parameters
NoContext ==
    [parent_class |-> NoParent, parent_function |-> NoParent,
     parent_interface |-> NoParent, parent_struct |-> NoParent,
     parent_trait |-> NoParent, parent_impl |-> NoParent,
     parent_namespace |-> NoParent, parent_component |-> NoParent]

\* `if parent_x:` on an optional entry
IsSet(parent) == parent.name # None

\* root_node.text.decode()
NodeText(node) == node.type \o " " \o node.name

\* the text a summary lists for a member: what precedes its block
MethodInfo(language, child) ==
    CASE language = "python" -> child.name \o "(self)"
      [] language = "cpp:namespace" -> child.type \o ": " \o child.name
      [] language \in {"java", "cpp"} -> "void " \o child.name \o "()"
      [] OTHER -> child.name

RECURSIVE MemberLines(_, _, _)
\* class_methods += f"- {...}\n" for every member of one of the types
MemberLines(language, children, types) ==
    IF children = <<>> THEN ""
    ELSE (IF Head(children).type \in types
          THEN "- " \o MethodInfo(language, Head(children)) \o "\n" ELSE "")
         \o MemberLines(language, Tail(children), types)

\* class_methods.strip() if class_methods != "" else None
StripOrNone(text) == IF text = "" THEN None ELSE SubSeq(text, 1, Len(text) - 1)

\* what handling one node does: the entries inserted and the context the
\* children are visited with
Handled(entries, ctx) == [entries |-> entries, ctx |-> ctx]

\* faulty variant: as in the other visitors, an ambient class goes before
\* an ambient function
python_parent_class_first(parent_function, parent_class) ==
    IF IsSet(parent_class) THEN <<None, parent_class.name>>
    ELSE IF IsSet(parent_function) THEN <<parent_function.name, None>>
    ELSE <<None, None>>

\* faulty variant: a function with both ambients names both
python_parent_both(parent_function, parent_class) ==
    <<IF IsSet(parent_function) THEN parent_function.name ELSE None,
      IF IsSet(parent_class) THEN parent_class.name ELSE None>>

\* python_parser.py 53-66: <<parent_function, parent_class>> of a function
python_parent(parent_function, parent_class) ==
    IF IsSet(parent_function) /\ IsSet(parent_class)
    THEN IF /\ parent_function.start_line >= parent_class.start_line
            /\ parent_function.end_line <= parent_class.end_line
         THEN <<parent_function.name, None>>
         ELSE <<None, parent_class.name>>
    ELSE IF IsSet(parent_function) THEN <<parent_function.name, None>>
    ELSE IF IsSet(parent_class) THEN <<None, parent_class.name>>
    ELSE <<None, None>>

python_node(root_node, file_path, ctx) ==
    CASE root_node.type = "function_definition" ->
           LET parent == python_parent(ctx.parent_function, ctx.parent_class)
               function_entry ==
                   FunctionEntry(root_node.name, file_path, NodeText(root_node),
                                 root_node.start_line, root_node.end_line,
                                 parent[1], parent[2])
           IN  Handled(<<function_entry>>, [ctx EXCEPT !.parent_function = function_entry])
      [] root_node.type = "class_definition" ->
           LET class_entry ==
                   ClassEntry(root_node.name, file_path, NodeText(root_node),
                              root_node.start_line, root_node.end_line, None,
                              StripOrNone(MemberLines("python", root_node.children,
                                                      {"function_definition"})))
           IN  Handled(<<class_entry>>, [ctx EXCEPT !.parent_class = class_entry])
      [] OTHER -> Handled(<<>>, ctx)

\* kotlin_parser.py: class_declaration is split by its keyword child
kotlin_node(root_node, file_path, ctx) ==
    CASE root_node.type = "class_declaration:interface" ->
           LET interface_entry ==
                   InterfaceEntry(root_node.name, file_path, NodeText(root_node),
                                  root_node.start_line, root_node.end_line, None)
           IN  Handled(<<interface_entry>>, [ctx EXCEPT !.parent_interface = interface_entry])
      [] root_node.type \in {"class_declaration", "object_declaration"} ->
           LET class_entry ==
                   ClassEntry(root_node.name, file_path, NodeText(root_node),
                              root_node.start_line, root_node.end_line, None, None)
           IN  Handled(<<class_entry>>, [ctx EXCEPT !.parent_class = class_entry])
      [] root_node.type = "function_declaration" ->
           LET function_entry ==
                   FunctionEntry(root_node.name, file_path, NodeText(root_node),
                                 root_node.start_line, root_node.end_line,
                                 IF ~IsSet(ctx.parent_class) /\ ~IsSet(ctx.parent_interface)
                                    /\ IsSet(ctx.parent_function)
                                 THEN ctx.parent_function.name ELSE None,
                                 IF IsSet(ctx.parent_class) THEN ctx.parent_class.name
                                 ELSE IF IsSet(ctx.parent_interface)
                                      THEN ctx.parent_interface.name ELSE None)
           IN  Handled(<<function_entry>>, [ctx EXCEPT !.parent_function = function_entry])
      [] OTHER -> Handled(<<>>, ctx)

java_node(root_node, file_path, ctx) ==
    CASE root_node.type = "class_declaration" ->
           LET class_entry ==
                   ClassEntry(root_node.name, file_path, NodeText(root_node),
                              root_node.start_line, root_node.end_line, None,
                              StripOrNone(MemberLines("java", root_node.children,
                                                      {"method_declaration"})))
           IN  Handled(<<class_entry>>, [ctx EXCEPT !.parent_class = class_entry])
      [] root_node.type = "interface_declaration" ->
           LET interface_entry ==
                   InterfaceEntry(root_node.name, file_path, NodeText(root_node),
                                  root_node.start_line, root_node.end_line,
                                  StripOrNone(MemberLines("java", root_node.children,
                                                          {"method_declaration"})))
           IN  Handled(<<interface_entry>>, [ctx EXCEPT !.parent_interface = interface_entry])
      [] root_node.type = "enum_declaration" ->
           LET enum_entry ==
                   EnumEntry(root_node.name, file_path, NodeText(root_node),
                             root_node.start_line, root_node.end_line, None,
                             IF IsSet(ctx.parent_class) THEN ctx.parent_class.name ELSE None)
           IN  Handled(<<enum_entry>>, ctx)
      [] root_node.type = "method_declaration" ->
           LET method_entry ==
                   FunctionEntry(root_node.name, file_path, NodeText(root_node),
                                 root_node.start_line, root_node.end_line, None,
                                 IF IsSet(ctx.parent_class) THEN ctx.parent_class.name
                                 ELSE IF IsSet(ctx.parent_interface)
                                      THEN ctx.parent_interface.name ELSE None)
           IN  Handled(<<method_entry>>, ctx)
      [] OTHER -> Handled(<<>>, ctx)

cpp_node(root_node, file_path, ctx) ==
    CASE root_node.type = "class_specifier" ->
           LET class_entry ==
                   ClassEntry(root_node.name, file_path, NodeText(root_node),
                              root_node.start_line, root_node.end_line, None,
                              StripOrNone(MemberLines("cpp", root_node.children,
                                                      {"function_definition"})))
           IN  Handled(<<class_entry>>, [ctx EXCEPT !.parent_class = class_entry])
      [] root_node.type = "struct_specifier" ->
           LET struct_entry ==
                   StructEntry(root_node.name, file_path, NodeText(root_node),
                               root_node.start_line, root_node.end_line, None,
                               StripOrNone(MemberLines("cpp", root_node.children,
                                                       {"function_definition"})))
           IN  Handled(<<struct_entry>>, ctx)
      [] root_node.type = "enum_specifier" ->
           LET enum_entry ==
                   EnumEntry(root_node.name, file_path, NodeText(root_node),
                             root_node.start_line, root_node.end_line, None,
                             IF IsSet(ctx.parent_class) THEN ctx.parent_class.name ELSE None)
           IN  Handled(<<enum_entry>>, ctx)
      [] root_node.type = "namespace_definition" ->
           LET namespace_entry ==
                   NamespaceEntry(root_node.name, file_path, NodeText(root_node),
                                  root_node.start_line, root_node.end_line,
                                  StripOrNone(MemberLines("cpp:namespace", root_node.children,
                                                          {"class_specifier", "struct_specifier",
                                                           "function_definition"})))
           IN  Handled(<<namespace_entry>>, [ctx EXCEPT !.parent_namespace = namespace_entry])
      [] root_node.type = "function_definition" ->
           LET function_entry ==
                   FunctionEntry(root_node.name, file_path, NodeText(root_node),
                                 root_node.start_line, root_node.end_line, None,
                                 IF IsSet(ctx.parent_class) THEN ctx.parent_class.name ELSE None)
           IN  Handled(<<function_entry>>, ctx)
      [] OTHER -> Handled(<<>>, ctx)

\* zig_parser.py: a Decl holds a FnProto (function) or a VarDecl whose
\* value is a container; no branch assigns parent_struct or parent_function
zig_node(root_node, file_path, ctx) ==
    CASE root_node.type = "Decl:FnProto" ->
           LET function_entry ==
                   FunctionEntry(root_node.name, file_path, NodeText(root_node),
                                 root_node.start_line, root_node.end_line,
                                 IF ~IsSet(ctx.parent_struct) /\ IsSet(ctx.parent_function)
                                 THEN ctx.parent_function.name ELSE None,
                                 IF IsSet(ctx.parent_struct) THEN ctx.parent_struct.name ELSE None)
           IN  Handled(<<function_entry>>, ctx)
      [] root_node.type = "Decl:VarDecl:struct" ->
           LET struct_entry ==
                   StructEntry(root_node.name, file_path, NodeText(root_node),
                               root_node.start_line, root_node.end_line, None, None)
           IN  Handled(<<struct_entry>>, ctx)
      [] OTHER -> Handled(<<>>, ctx)

\* the receiver type of every method of a model file
ReceiverType == "*pkg.T"

RECURSIVE Without(_, _)
\* text.replace(ch, "")
Without(text, ch) ==
    IF text = "" THEN ""
    ELSE (IF SubSeq(text, 1, 1) = ch THEN "" ELSE SubSeq(text, 1, 1))
         \o Without(SubSeq(text, 2, Len(text)), ch)

\* text.rfind(ch), 1-based; 0 when ch does not occur
LastIndex(text, ch) ==
    LET at == {i \in 1..Len(text) : SubSeq(text, i, i) = ch}
    IN  IF at = {} THEN 0 ELSE CHOOSE i \in at : \A j \in at : j <= i

\* receiver_type.replace("*", "").split(".")[-1]
CleanType(receiver_type) ==
    LET text == Without(receiver_type, "*")
    IN  SubSeq(text, LastIndex(text, ".") + 1, Len(text))

go_node(root_node, file_path, ctx) ==
    CASE root_node.type = "function_declaration" ->
           LET function_entry ==
                   FunctionEntry(root_node.name, file_path, NodeText(root_node),
                                 root_node.start_line, root_node.end_line,
                                 IF IsSet(ctx.parent_function)
                                 THEN ctx.parent_function.name ELSE None,
                                 None)
           IN  Handled(<<function_entry>>, [ctx EXCEPT !.parent_function = function_entry])
      [] root_node.type = "method_declaration" ->
           LET method_entry ==
                   FunctionEntry(root_node.name, file_path, NodeText(root_node),
                                 root_node.start_line, root_node.end_line, None,
                                 CleanType(ReceiverType))
           IN  Handled(<<method_entry>>, [ctx EXCEPT !.parent_function = method_entry])
      [] root_node.type = "type_spec:struct_type" ->
           LET struct_entry ==
                   StructEntry(root_node.name, file_path, NodeText(root_node),
                               root_node.start_line, root_node.end_line, None, None)
           IN  Handled(<<struct_entry>>, [ctx EXCEPT !.parent_struct = struct_entry])
      [] OTHER -> Handled(<<>>, ctx)

rust_node(root_node, file_path, ctx) ==
    CASE root_node.type = "function_item" ->
           LET parent_class ==
                   IF IsSet(ctx.parent_impl) THEN ctx.parent_impl.name
                   ELSE IF IsSet(ctx.parent_trait) THEN ctx.parent_trait.name
                   ELSE IF IsSet(ctx.parent_struct) THEN ctx.parent_struct.name
                   ELSE None
               function_entry ==
                   FunctionEntry(root_node.name, file_path, NodeText(root_node),
                                 root_node.start_line, root_node.end_line,
                                 IF parent_class = None /\ IsSet(ctx.parent_function)
                                 THEN ctx.parent_function.name ELSE None,
                                 parent_class)
           IN  Handled(<<function_entry>>, [ctx EXCEPT !.parent_function = function_entry])
      [] root_node.type = "struct_item" ->
           LET struct_entry ==
                   StructEntry(root_node.name, file_path, NodeText(root_node),
                               root_node.start_line, root_node.end_line, None, None)
           IN  Handled(<<struct_entry>>, [ctx EXCEPT !.parent_struct = struct_entry])
      [] root_node.type = "trait_item" ->
           LET trait_entry ==
                   TraitEntry(root_node.name, file_path, NodeText(root_node),
                              root_node.start_line, root_node.end_line,
                              StripOrNone(MemberLines("rust", root_node.children,
                                                      {"function_signature_item"})))
           IN  Handled(<<trait_entry>>, [ctx EXCEPT !.parent_trait = trait_entry])
      [] root_node.type = "impl_item" ->
           LET impl_entry ==
                   ClassEntry(root_node.name, file_path, NodeText(root_node),
                              root_node.start_line, root_node.end_line, None,
                              StripOrNone(MemberLines("rust", root_node.children,
                                                      {"function_item"})))
           IN  Handled(<<impl_entry>>, [ctx EXCEPT !.parent_impl = impl_entry])
      [] OTHER -> Handled(<<>>, ctx)

RECURSIVE Flatten(_)
\* the declarations of a script in the order of their text
Flatten(nodes) ==
    IF nodes = <<>> THEN <<>>
    ELSE <<Head(nodes)>> \o Flatten(Head(nodes).children) \o Flatten(Tail(nodes))

RECURSIVE TextFrom(_, _)
\* script_content[match.start():]
TextFrom(nodes, j) ==
    IF j > Len(nodes) THEN ""
    ELSE NodeText(nodes[j]) \o ";" \o TextFrom(nodes, j + 1)

\* os.path.splitext(os.path.basename(file_path))[0]
Stem(file_path) ==
    LET basename == SubSeq(file_path, LastIndex(file_path, "/") + 1, Len(file_path))
        dot == LastIndex(basename, ".")
    IN  IF dot <= 1 THEN basename ELSE SubSeq(basename, 1, dot - 1)

\* svelte_parser.py: the document is the component; the functions of a
\* script element are found in its raw text by a regular expression
svelte_node(root_node, file_path, ctx) ==
    CASE root_node.type = "document" ->
           LET scripts == SelectSeq(root_node.children,
                                    LAMBDA child : child.type = "script_element")
               found == IF scripts = <<>> THEN <<>> ELSE Flatten(scripts[1].children)
               component_entry ==
                   ComponentEntry(Stem(file_path), file_path, NodeText(root_node),
                                  root_node.start_line, root_node.end_line, None,
                                  StripOrNone(MemberLines("svelte", found,
                                                          {"function_declaration"})))
           IN  Handled(<<component_entry>>, [ctx EXCEPT !.parent_component = component_entry])
      [] root_node.type = "script_element" ->
           LET found == Flatten(root_node.children)
           IN  Handled([j \in 1..Len(found) |->
                          FunctionEntry(found[j].name, file_path, TextFrom(found, j),
                                        root_node.start_line, root_node.end_line,
                                        IF ~IsSet(ctx.parent_component)
                                           /\ IsSet(ctx.parent_function)
                                        THEN ctx.parent_function.name ELSE None,
                                        IF IsSet(ctx.parent_component)
                                        THEN ctx.parent_component.name ELSE None)],
                       ctx)
      [] OTHER -> Handled(<<>>, ctx)

\* javascript_parser.py, the branches of the function nodes: a function
\* expression or an arrow function is named after the line it starts on,
\* unless its parent node binds it to a name
javascript_node(root_node, file_path, ctx) ==
    LET parent_of(entry) ==
            [entry EXCEPT !.parent_class = IF IsSet(ctx.parent_class)
                                           THEN ctx.parent_class.name ELSE None,
                          !.parent_function = IF ~IsSet(ctx.parent_class)
                                                 /\ IsSet(ctx.parent_function)
                                              THEN ctx.parent_function.name ELSE None]
    IN  CASE root_node.type = "function_declaration" ->
               LET function_entry ==
                       parent_of(FunctionEntry(root_node.name, file_path, NodeText(root_node),
                                               root_node.start_line, root_node.end_line,
                                               None, None))
               IN  Handled(<<function_entry>>, [ctx EXCEPT !.parent_function = function_entry])
          [] root_node.type \in {"function_expression", "arrow_function"} ->
               LET function_name ==
                       IF root_node.parent.type \in {"variable_declarator",
                                                     "assignment_expression"}
                       THEN root_node.parent.name
                       ELSE "anonymous_fn_line_" \o ToString(root_node.start_line)
                   function_entry ==
                       parent_of(FunctionEntry(function_name, file_path, NodeText(root_node),
                                               root_node.start_line, root_node.end_line,
                                               None, None))
               IN  Handled(<<function_entry>>, [ctx EXCEPT !.parent_function = function_entry])
          [] OTHER -> Handled(<<>>, ctx)

\* gleam_parser.py, the branches of the function nodes (parent_module is
\* bound by no branch: it is None in every call)
gleam_node(root_node, file_path, ctx) ==
    LET parent_of(entry) ==
            [entry EXCEPT !.parent_function = IF IsSet(ctx.parent_function)
                                              THEN ctx.parent_function.name ELSE None]
    IN  CASE root_node.type = "function_definition" ->
               LET function_entry ==
                       parent_of(FunctionEntry(root_node.name, file_path, NodeText(root_node),
                                               root_node.start_line, root_node.end_line,
                                               None, None))
               IN  Handled(<<function_entry>>, [ctx EXCEPT !.parent_function = function_entry])
          [] root_node.type = "anonymous_function" ->
               LET function_entry ==
                       parent_of(FunctionEntry("anonymous_fn_line_" \o ToString(root_node.start_line),
                                               file_path, NodeText(root_node),
                                               root_node.start_line, root_node.end_line,
                                               None, None))
               IN  Handled(<<function_entry>>, [ctx EXCEPT !.parent_function = function_entry])
          [] OTHER -> Handled(<<>>, ctx)

\* swift_parser.py extract_method_name: the name child, or the keyword of
\* an initializer, or the empty string
extract_method_name(func_node) ==
    IF func_node.name # None THEN func_node.name
    ELSE IF func_node.type = "init_declaration" THEN "init"
    ELSE IF func_node.type = "deinit_declaration" THEN "deinit"
    ELSE ""

\* swift_parser.py, the branch of the function nodes (the ambient protocol
\* is carried in the slot parent_interface)
swift_node(root_node, file_path, ctx) ==
    IF root_node.type \in {"function_declaration", "init_declaration", "deinit_declaration"}
    THEN LET owner == IF IsSet(ctx.parent_class) THEN ctx.parent_class.name
                      ELSE IF IsSet(ctx.parent_struct) THEN ctx.parent_struct.name
                      ELSE IF IsSet(ctx.parent_interface) THEN ctx.parent_interface.name
                      ELSE None
             function_entry ==
                 FunctionEntry(extract_method_name(root_node), file_path, NodeText(root_node),
                               root_node.start_line, root_node.end_line,
                               IF owner = None /\ IsSet(ctx.parent_function)
                               THEN ctx.parent_function.name ELSE None,
                               owner)
         IN  Handled(<<function_entry>>, [ctx EXCEPT !.parent_function = function_entry])
    ELSE Handled(<<>>, ctx)

\* solidity_parser.py, the branch of the function nodes: without a name
\* child the node type is the name (the ambient contract is carried in the
\* slot parent_class)
solidity_node(root_node, file_path, ctx) ==
    IF root_node.type \in {"function_definition", "constructor_definition",
                           "modifier_definition"}
    THEN LET function_name == IF root_node.name # None THEN root_node.name
                              ELSE root_node.type
             function_entry ==
                 FunctionEntry(function_name, file_path, NodeText(root_node),
                               root_node.start_line, root_node.end_line,
                               IF ~IsSet(ctx.parent_class) /\ IsSet(ctx.parent_function)
                               THEN ctx.parent_function.name ELSE None,
                               IF IsSet(ctx.parent_class) THEN ctx.parent_class.name ELSE None)
         IN  Handled(<<function_entry>>, [ctx EXCEPT !.parent_function = function_entry])
    ELSE Handled(<<>>, ctx)

\* the languages whose visitor is modelled over nested declarations
Languages == {"python", "kotlin", "java", "cpp", "zig", "go", "rust", "svelte"}

\* the branch of the node's type in recursive_visit_<language>
Handle(language, root_node, file_path, ctx) ==
    CASE language = "python" -> python_node(root_node, file_path, ctx)
      [] language = "kotlin" -> kotlin_node(root_node, file_path, ctx)
      [] language = "java" -> java_node(root_node, file_path, ctx)
      [] language = "cpp" -> cpp_node(root_node, file_path, ctx)
      [] language = "zig" -> zig_node(root_node, file_path, ctx)
      [] language = "go" -> go_node(root_node, file_path, ctx)
      [] language = "rust" -> rust_node(root_node, file_path, ctx)
      [] language = "svelte" -> svelte_node(root_node, file_path, ctx)
      [] language = "javascript" -> javascript_node(root_node, file_path, ctx)
      [] language = "gleam" -> gleam_node(root_node, file_path, ctx)
      [] language = "swift" -> swift_node(root_node, file_path, ctx)
      [] language = "solidity" -> solidity_node(root_node, file_path, ctx)

\* what a traversal did: the entries inserted, in order, and whether an
\* exception left it
Traversal(entries, raised) == [entries |-> entries, raised |-> raised]

\* faulty variant: no visitor guards its branches
Catches_nothing(language) == FALSE

\* the visitors whose branches stand in `try: ... except Exception: pass`
Catches(language) == language \in {"kotlin", "zig"}

RECURSIVE recursive_visit(_, _, _, _)
RECURSIVE VisitChildren(_, _, _, _)
\* recursive_visit_<language>: handle the node, then visit its children
\* with the context the handling left.  A node with `fails` raises in its
\* branch before the entry is inserted and before a parent_* is rebound.
recursive_visit(language, root_node, file_path, ctx) ==
    IF root_node.fails /\ ~Catches(language) THEN Traversal(<<>>, TRUE)
    ELSE LET h == IF root_node.fails THEN Handled(<<>>, ctx)
                  ELSE Handle(language, root_node, file_path, ctx)
             below == VisitChildren(language, root_node.children, file_path, h.ctx)
         IN  Traversal(h.entries \o below.entries, below.raised)

\* faulty variant: the context a child's handling leaves is passed on to
\* the siblings that follow it
VisitChildren_shared_context(language, children, file_path, ctx) ==
    IF children = <<>> THEN Traversal(<<>>, FALSE)
    ELSE LET first == recursive_visit(language, Head(children), file_path, ctx)
             rest == VisitChildren(language, Tail(children), file_path,
                                   Handle(language, Head(children), file_path, ctx).ctx)
         IN  IF first.raised THEN first
             ELSE Traversal(first.entries \o rest.entries, rest.raised)

\* for child in root_node.children
VisitChildren(language, children, file_path, ctx) ==
    IF children = <<>> THEN Traversal(<<>>, FALSE)
    ELSE LET first == recursive_visit(language, Head(children), file_path, ctx)
             rest == VisitChildren(language, Tail(children), file_path, ctx)
         IN  IF first.raised THEN first
             ELSE Traversal(first.entries \o rest.entries, rest.raised)

-----------------------------------------------------------------------------
(* Model files: a chain of nested declarations, the innermost optionally   *)
(* followed by a sibling of its type, each enclosing body optionally       *)
(* ending in a statement of its own.                                       *)

\* the node types of the declarations a model file nests
NodeTypes(language) ==
    CASE language = "python" -> {"function_definition", "class_definition"}
      [] language = "kotlin" -> {"class_declaration", "class_declaration:interface",
                                 "object_declaration", "function_declaration"}
      [] language = "java" -> {"class_declaration", "interface_declaration",
                               "enum_declaration", "method_declaration"}
      [] language = "cpp" -> {"class_specifier", "struct_specifier", "enum_specifier",
                              "namespace_definition", "function_definition"}
      [] language = "zig" -> {"Decl:FnProto", "Decl:VarDecl:struct"}
      [] language = "go" -> {"function_declaration", "method_declaration",
                             "type_spec:struct_type"}
      [] language = "rust" -> {"function_item", "struct_item", "trait_item", "impl_item"}
      [] language = "svelte" -> {"function_declaration"}

\* the node types that declare a function
FunctionTypes ==
    {"function_definition", "function_declaration", "method_declaration",
     "Decl:FnProto", "function_item"}

\* a declaration of type inner may stand in the body of one of type outer
MayContain(language, outer, inner) ==
    CASE language = "python" -> TRUE
      [] language = "kotlin" ->
           outer = "function_declaration"
           => inner \in {"function_declaration", "class_declaration"}
      [] language = "java" ->
           /\ outer # "enum_declaration"
           /\ outer = "method_declaration" => inner = "class_declaration"
      [] language = "cpp" ->
           /\ outer # "enum_specifier"
           /\ inner = "namespace_definition" => outer = "namespace_definition"
           /\ outer = "function_definition" => inner \in {"class_specifier", "struct_specifier"}
      [] language = "zig" -> outer = "Decl:VarDecl:struct"
      [] language = "go" ->
           outer \in {"function_declaration", "method_declaration"}
           /\ inner = "type_spec:struct_type"
      [] language = "rust" ->
           CASE outer = "function_item" -> TRUE
             [] outer \in {"trait_item", "impl_item"} -> inner = "function_item"
             [] OTHER -> FALSE
      [] language = "svelte" -> TRUE

\* a declaration of the type may stand at the top level of a file
MayStart(language, type) ==
    language = "java" => type # "method_declaration"

Chains(language) ==
    UNION { { c \in [1..k -> NodeTypes(language)] :
                /\ MayStart(language, c[1])
                /\ \A i \in 1..(k - 1) : MayContain(language, c[i], c[i + 1]) }
            : k \in 1..MaxDepth }

\* the extension of the files of a language
Extension(language) ==
    CASE language = "python" -> ".py"
      [] language = "kotlin" -> ".kt"
      [] language = "java" -> ".java"
      [] language = "cpp" -> ".cpp"
      [] language = "zig" -> ".zig"
      [] language = "go" -> ".go"
      [] language = "rust" -> ".rs"
      [] language = "svelte" -> ".svelte"

FilePath(language) == "/p/App" \o Extension(language)

\* a model file src: [kind, language, chain, twin, tail, after]; chain lists
\* the node types from the outermost declaration to the innermost, twin tells
\* whether the innermost has a sibling, tail whether the enclosing bodies end
\* in a line of their own, after the type of a further top-level declaration
\* that follows the outermost one ("none": there is none), fault the depth of
\* the declaration whose branch raises (0: none does)

\* the first line of the declarations: a svelte script starts with its tag
Offset(src) == IF src.language = "svelte" THEN 1 ELSE 0

\* the last line a declaration's header stands on
LastHeader(src) == Offset(src) + Len(src.chain) + (IF src.twin THEN 1 ELSE 0)

\* the sibling of the innermost declaration
TwinNode(src) ==
    [type |-> src.chain[Len(src.chain)], name |-> "m" \o ToString(Len(src.chain)),
     start_line |-> LastHeader(src), end_line |-> LastHeader(src), children |-> <<>>,
     fails |-> FALSE]

RECURSIVE DeclNode(_, _)
\* the declaration at depth i of the chain
DeclNode(src, i) ==
    LET k == Len(src.chain)
    IN  [type |-> src.chain[i], name |-> "n" \o ToString(i),
         start_line |-> Offset(src) + i,
         end_line |-> IF i = k THEN Offset(src) + i
                      ELSE LastHeader(src) + (IF src.tail THEN k - i ELSE 0),
         children |-> IF i = k THEN <<>>
                      ELSE <<DeclNode(src, i + 1)>>
                           \o (IF src.twin /\ i + 1 = k THEN <<TwinNode(src)>> ELSE <<>>),
         fails |-> src.fault = i]

\* the last line of the outermost declaration and its sibling
Bottom(src) ==
    DeclNode(src, 1).end_line + (IF src.twin /\ Len(src.chain) = 1 THEN 1 ELSE 0)

\* the top-level declaration that follows the outermost one
AfterNode(src) ==
    [type |-> src.after, name |-> "z1",
     start_line |-> Bottom(src) + 1, end_line |-> Bottom(src) + 1, children |-> <<>>,
     fails |-> FALSE]

\* tree.root_node of the parsed file
RootNode(src) ==
    LET decls == <<DeclNode(src, 1)>>
                 \o (IF src.twin /\ Len(src.chain) = 1 THEN <<TwinNode(src)>> ELSE <<>>)
                 \o (IF src.after # "none" THEN <<AfterNode(src)>> ELSE <<>>)
        bottom == Bottom(src) + (IF src.after # "none" THEN 1 ELSE 0)
    IN  IF src.language = "svelte"
        THEN [type |-> "document", name |-> "", start_line |-> 1, end_line |-> bottom + 1,
              children |-> <<[type |-> "script_element", name |-> "", start_line |-> 1,
                              end_line |-> bottom + 1, children |-> decls,
                              fails |-> FALSE]>>,
              fails |-> FALSE]
        ELSE [type |-> "source_file", name |-> "", start_line |-> 1, end_line |-> bottom,
              children |-> decls, fails |-> FALSE]

\* the model files, not yet visited
Source(language, c, twin, tail, after, fault) ==
    [kind |-> "source", language |-> language, chain |-> c,
     twin |-> twin, tail |-> tail, after |-> after, fault |-> fault]

\* a file to build from, and an empty store
InitVisit ==
    /\ tree = [p \in Paths |-> [f \in Files(p) |-> [mtime |-> 0, ok |-> TRUE]]]
    /\ clock = 0
    /\ git_repo = FALSE
    /\ head = 0
    /\ status = {}
    /\ storage_info = <<>>
    /\ db_files = <<>>
    /\ inodes = <<>>
    /\ ckg_databases = <<>>
    /\ result = ToolExecResult(None, None)
    /\ last = NoRun
    /\ store = EmptyDb
    /\ times = [now |-> 0, mtime |-> <<>>]
    /\ \E language \in Languages : \E c \in Chains(language) :
         \E twin, tail \in BOOLEAN :
           \E after \in {"none"} \cup {type \in NodeTypes(language) : MayStart(language, type)} :
             \E fault \in 0..(IF language = "svelte" THEN 0 ELSE Len(c)) :
               input = Source(language, c, twin, tail, after, fault)

\* the file is parsed and visited: the visitor's inserts reach the store
VisitFile ==
    /\ input.kind = "source"
    /\ input' = [input EXCEPT !.kind = "visit"]
    /\ LET done == recursive_visit(input.language, RootNode(input),
                                   FilePath(input.language), NoContext)
       IN  /\ store' = InsertAll(EmptyDb, done.entries)
           /\ result' = IF done.raised THEN Raised ELSE ToolExecResult(None, None)
    /\ UNCHANGED <<tree, clock, git_repo, head, status, storage_info, db_files, inodes,
                   ckg_databases, last, times>>

NextVisit == VisitFile

SpecVisit == InitVisit /\ [][NextVisit]_vars

-----------------------------------------------------------------------------
(* Claims about the visitors, over the store one visit leaves.             *)

\* a file was visited and no branch raised
Visited == input.kind = "visit" /\ input.fault = 0

\* the rows of table functions / classes with the name
FunctionsNamed(name) ==
    {i \in 1..Len(store["functions"]) : store["functions"][i].name = name}
ClassesNamed(name) ==
    {i \in 1..Len(store["classes"]) : store["classes"][i].name = name}

\* the node types whose branch inserts a ClassEntry
ClassTypes ==
    {"class_definition", "class_declaration", "object_declaration", "class_specifier",
     "impl_item"}

\* the declarations at depth i of the visited file: the chain's node, at the
\* innermost depth its sibling, at the top level the declaration that follows
DeclsAt(i) ==
    {DeclNode(input, i)}
    \cup (IF input.twin /\ i = Len(input.chain) THEN {TwinNode(input)} ELSE {})
    \cup (IF input.after # "none" /\ i = 1 THEN {AfterNode(input)} ELSE {})

\* the functions declared at depth i
FunctionsAt(i) == {n \in DeclsAt(i) : n.type \in FunctionTypes}

\* the name the function's row gives as its parent: the field that is set
ParentOf(row) ==
    IF row.parent_function # None THEN row.parent_function ELSE row.parent_class

(* C12: in every visitor that emits Class entities, a class declaring two  *)
(* methods yields one Class entity whose methods field names both, and one *)
(* Function entity per method whose parent_class is the class name.        *)
C12_ClassListsMethods ==
    (/\ Visited /\ input.twin /\ Len(input.chain) >= 2
     /\ input.chain[Len(input.chain) - 1] \in ClassTypes
     /\ input.chain[Len(input.chain)] \in FunctionTypes)
    => LET k == Len(input.chain)
           class == DeclNode(input, k - 1)
       IN  /\ Cardinality(ClassesNamed(class.name)) = 1
           /\ \A c \in ClassesNamed(class.name) :
                /\ store["classes"][c].methods # None
                /\ \A m \in DeclsAt(k) : Contains(store["classes"][c].methods, m.name)
           /\ \A m \in DeclsAt(k) :
                /\ Cardinality(FunctionsNamed(m.name)) = 1
                /\ \A f \in FunctionsNamed(m.name) :
                     store["functions"][f].parent_class = class.name

(* C13: in every language, a file whose only declaration is a top-level    *)
(* function f yields exactly one Function entity, named f, with            *)
(* parent_function and parent_class null and the line range of the         *)
(* definition.                                                             *)
C13_TopLevelFunction ==
    (/\ Visited /\ ~input.twin /\ Len(input.chain) = 1 /\ input.after = "none"
     /\ input.chain[1] \in FunctionTypes \ {"method_declaration"})
    => LET f == DeclNode(input, 1)
       IN  /\ Len(store["functions"]) = 1
           /\ store["functions"][1].name = f.name
           /\ store["functions"][1].parent_function = None
           /\ store["functions"][1].parent_class = None
           /\ store["functions"][1].start_line = f.start_line
           /\ store["functions"][1].end_line = f.end_line

\* the depth of the innermost declaration of one of the types that
\* encloses depth i; 0 when there is none
Enclosing(i, types) ==
    LET at == {j \in 1..(i - 1) : input.chain[j] \in types}
    IN  IF at = {} THEN 0 ELSE CHOOSE j \in at : \A l \in at : l <= j

\* the line range of a is inside the one of b
Within(a, b) == a.start_line >= b.start_line /\ a.end_line <= b.end_line

(* C18: the Python visitor: a function with an ambient class and an        *)
(* ambient function gets parent_class exactly when the range of the        *)
(* ambient function is not inside the range of the ambient class, and      *)
(* parent_function otherwise; with one ambient it gets that one; with none *)
(* neither; so for any nesting the parent is the innermost enclosing class *)
(* or function.                                                            *)
C18_PythonInnermostParent ==
    (Visited /\ input.language = "python")
    => \A i \in 1..Len(input.chain) : \A n \in FunctionsAt(i) :
         /\ Cardinality(FunctionsNamed(n.name)) = 1
         /\ \A f \in FunctionsNamed(n.name) :
              LET row == store["functions"][f]
                  c == Enclosing(i, {"class_definition"})
                  g == Enclosing(i, {"function_definition"})
              IN  /\ (c > 0 /\ g > 0)
                     => IF Within(DeclNode(input, g), DeclNode(input, c))
                        THEN /\ row.parent_function = DeclNode(input, g).name
                             /\ row.parent_class = None
                        ELSE /\ row.parent_class = DeclNode(input, c).name
                             /\ row.parent_function = None
                  /\ (c = 0 /\ g > 0)
                     => row.parent_function = DeclNode(input, g).name /\ row.parent_class = None
                  /\ (c > 0 /\ g = 0)
                     => row.parent_class = DeclNode(input, c).name /\ row.parent_function = None
                  /\ (c = 0 /\ g = 0)
                     => row.parent_function = None /\ row.parent_class = None
                  /\ i > 1 => ParentOf(row) = DeclNode(input, i - 1).name

\* a function in a method of a class in a function: both ambients are set
\* at the two inner functions, and each names its innermost enclosure
C18_Witness ==
    /\ Visited /\ input.language = "python"
    /\ input.chain = <<"function_definition", "class_definition",
                       "function_definition", "function_definition">>
    /\ input.twin /\ input.tail
    /\ \E f \in FunctionsNamed("n3") : store["functions"][f].parent_class = "n2"
    /\ \E f \in FunctionsNamed("n4") : store["functions"][f].parent_function = "n3"
    /\ \E f \in FunctionsNamed("m4") : store["functions"][f].parent_function = "n3"

(* C19: no Function entity has both parent_function and parent_class set.  *)
C19_AtMostOneParent ==
    Visited
    => \A f \in 1..Len(store["functions"]) :
         store["functions"][f].parent_function = None
         \/ store["functions"][f].parent_class = None

\* a function visited with an ambient class and an ambient function
C19_Witness ==
    /\ Visited
    /\ \E i \in 1..Len(input.chain) :
         /\ input.chain[i] \in FunctionTypes
         /\ \E j, l \in 1..(i - 1) :
              /\ input.chain[j] \in ClassTypes
              /\ input.chain[l] \in FunctionTypes \ {"method_declaration", "Decl:FnProto"}
         /\ \E f \in FunctionsNamed(DeclNode(input, i).name) :
              ParentOf(store["functions"][f]) # None

\* the node types that introduce a scope a function can be declared in
ScopeTypes ==
    ClassTypes \cup FunctionTypes
    \cup {"class_declaration:interface", "interface_declaration", "struct_specifier",
          "Decl:VarDecl:struct", "struct_item", "trait_item"}

(* C20: in every visitor, a function's parent is the innermost enclosing   *)
(* scope-introducing entity: a method of an interface nested in a class    *)
(* names the interface, a function declared in a struct names the struct,  *)
(* a function nested in a method names the method.                         *)
C20_InnermostScope ==
    Visited
    => \A i \in 2..Len(input.chain) : \A n \in FunctionsAt(i) :
         input.chain[i - 1] \in ScopeTypes
         => \A f \in FunctionsNamed(n.name) :
              ParentOf(store["functions"][f]) = DeclNode(input, i - 1).name

-----------------------------------------------------------------------------
(* The directory walk of a build (_construct_ckg): which of the paths      *)
(* glob("**/*") yields are parsed and visited.                             *)

\* the deepest directory below the codebase root
MaxDirs == 2

extension_to_language ==
    ".c" :> "c" @@ ".h" :> "c" @@ ".c++" :> "cpp" @@
    ".cc" :> "cpp" @@ ".cpp" :> "cpp" @@ ".cxx" :> "cpp" @@
    ".hpp" :> "cpp" @@ ".hxx" :> "cpp" @@ ".cs" :> "csharp" @@
    ".dart" :> "dart" @@ ".ex" :> "elixir" @@ ".exs" :> "elixir" @@
    ".gleam" :> "gleam" @@ ".go" :> "go" @@ ".java" :> "java" @@
    ".cjs" :> "javascript" @@ ".js" :> "javascript" @@ ".jsx" :> "javascript" @@
    ".mjs" :> "javascript" @@ ".kt" :> "kotlin" @@ ".kts" :> "kotlin" @@
    ".php" :> "php" @@ ".php3" :> "php" @@ ".php4" :> "php" @@
    ".php5" :> "php" @@ ".phtml" :> "php" @@ ".py" :> "python" @@
    ".pyw" :> "python" @@ ".rb" :> "ruby" @@ ".rbw" :> "ruby" @@
    ".rs" :> "rust" @@ ".sc" :> "scala" @@ ".scala" :> "scala" @@
    ".sol" :> "solidity" @@ ".svelte" :> "svelte" @@ ".swift" :> "swift" @@
    ".ts" :> "typescript" @@ ".tsx" :> "typescript" @@ ".vue" :> "vue" @@
    ".zig" :> "zig"

\* pathlib's PurePath.suffix: from the last dot of the name on, unless the
\* dot leads or ends the name
Suffix(name) ==
    LET dot == LastIndex(name, ".")
    IN  IF dot > 1 /\ dot < Len(name) THEN SubSeq(name, dot, Len(name)) ELSE ""

RECURSIVE Joined(_)
\* the segments, each preceded by a slash
Joined(segments) ==
    IF segments = <<>> THEN "" ELSE "/" \o Head(segments) \o Joined(Tail(segments))

\* file.absolute().as_posix()
as_posix(file) == file.root \o Joined(file.dirs) \o "/" \o file.name

\* hidden files and files in a hidden directory: the test runs over the
\* whole absolute path
is_hidden(file) ==
    \/ SubSeq(file.name, 1, 1) = "."
    \/ \E i \in 1..(Len(as_posix(file)) - 1) : SubSeq(as_posix(file), i, i + 1) = "/."

\* the text of a model file: one top-level function in the file's language
OneFunction(language) ==
    Source(language,
           << CHOOSE t \in NodeTypes(language) :
                t \in FunctionTypes \ {"method_declaration"} >>,
           FALSE, FALSE, "none", 0)

\* the inserts of one iteration of the loop of _construct_ckg
WalkEntries(file) ==
    IF file.is_file /\ ~is_hidden(file)
    THEN LET extension == Suffix(file.name)
         IN  IF extension \notin DOMAIN extension_to_language THEN <<>>
             ELSE LET language == extension_to_language[extension]
                  IN  \* the file names of the model reach modelled visitors only
                      IF language \notin Languages THEN <<>>
                      ELSE recursive_visit(language, RootNode(OneFunction(language)),
                                           as_posix(file), NoContext).entries
    ELSE <<>>

\* the absolute paths of the codebase roots: plain, below a hidden
\* directory, hidden itself
Roots == {"/home/u/proj", "/home/u/.cache/proj", "/srv/.proj"}
DirNames == {"src", ".venv"}
FileNames == {"a.py", ".a.py", "a.txt", "a", "a.PY", "a.tar.go", "py."}

\* the paths glob("**/*") yields: files and directories
Entries ==
    UNION { { [kind |-> "entry", root |-> r, dirs |-> d, name |-> n, is_file |-> f]
              : r \in Roots, d \in [1..k -> DirNames], n \in FileNames, f \in BOOLEAN }
            : k \in 0..MaxDirs }

InitWalk ==
    /\ tree = [p \in Paths |-> [f \in Files(p) |-> [mtime |-> 0, ok |-> TRUE]]]
    /\ clock = 0
    /\ git_repo = FALSE
    /\ head = 0
    /\ status = {}
    /\ storage_info = <<>>
    /\ db_files = <<>>
    /\ inodes = <<>>
    /\ ckg_databases = <<>>
    /\ result = ToolExecResult(None, None)
    /\ last = NoRun
    /\ store = EmptyDb
    /\ times = [now |-> 0, mtime |-> <<>>]
    /\ input \in Entries

\* one iteration of `for file in self._codebase_path.glob("**/*")`
WalkFile ==
    /\ input.kind = "entry"
    /\ input' = [input EXCEPT !.kind = "walked"]
    /\ store' = InsertAll(EmptyDb, WalkEntries(input))
    /\ result' = ToolExecResult(None, None)
    /\ UNCHANGED <<tree, clock, git_repo, head, status, storage_info, db_files, inodes,
                   ckg_databases, last, times>>

NextWalk == WalkFile

SpecWalk == InitWalk /\ [][NextWalk]_vars

\* the walk's iteration for the path inserted at least one entity
WasVisited == \E t \in Tables : Len(store[t]) > 0

(* C17: during a build a path under the codebase is parsed and visited if  *)
(* and only if it is a regular file, its name does not start with a dot,   *)
(* no directory between the codebase root and the file has a name starting *)
(* with a dot, and its extension is in the extension table; every other    *)
(* path is skipped without an entity and without an error.                 *)
C17_VisitedIff ==
    input.kind = "walked"
    => /\ ~result.raised /\ result.error = None
       /\ WasVisited
          <=> /\ input.is_file
              /\ SubSeq(input.name, 1, 1) # "."
              /\ \A i \in 1..Len(input.dirs) : SubSeq(input.dirs[i], 1, 1) # "."
              /\ Suffix(input.name) \in DOMAIN extension_to_language

-----------------------------------------------------------------------------
\* the entries the visit of the file inserted, in order
Emitted ==
    recursive_visit(input.language, RootNode(input), FilePath(input.language),
                    NoContext).entries

\* the names of the entities emitted for the proper ancestors of a
\* declaration at depth i: the enclosing declarations and, in a Svelte
\* file, the component of the document
AncestorNames(i) ==
    {DeclNode(input, j).name : j \in 1..(i - 1)}
    \cup (IF input.language = "svelte" THEN {Stem(FilePath("svelte"))} ELSE {})

(* C21: the ambient context never leaks sideways: in every visitor the     *)
(* parent a Function or Enum entity takes from the context names an entity *)
(* emitted for a proper ancestor of its node; an entity of a sibling or of *)
(* an earlier, finished subtree is never the parent of a later node (Go    *)
(* methods, whose parent is their receiver type, excepted).                *)
C21_NoSidewaysLeak ==
    Visited
    => /\ \A i \in 1..Len(input.chain) : \A n \in DeclsAt(i) :
            (n.type \in FunctionTypes
             /\ ~(input.language = "go" /\ n.type = "method_declaration"))
            => \A f \in FunctionsNamed(n.name) :
                 ParentOf(store["functions"][f]) # None
                 => ParentOf(store["functions"][f]) \in AncestorNames(i)
       /\ LET emitted == Emitted
          IN  \A e \in 1..Len(emitted) :
                (emitted[e].kind = "enum" /\ emitted[e].parent_class # None)
                => \E i \in 1..Len(input.chain) :
                     /\ \E n \in DeclsAt(i) : n.name = emitted[e].name
                     /\ emitted[e].parent_class \in AncestorNames(i)

\* a method and its sibling in a class, then a top-level function: the
\* sibling names the class, the later function names nothing
C21_Witness ==
    /\ Visited /\ input.language = "python"
    /\ input.chain = <<"class_definition", "function_definition">>
    /\ input.twin /\ input.after = "function_definition"
    /\ \E f \in FunctionsNamed("m2") : store["functions"][f].parent_class = "n1"
    /\ \E f \in FunctionsNamed("z1") : ParentOf(store["functions"][f]) = None

\* an enum nested in a Java class took the class from the context
C21_EnumInClass ==
    /\ Visited /\ input.language = "java"
    /\ input.chain = <<"class_declaration", "enum_declaration">>
    /\ \E e \in 1..Len(Emitted) : Emitted[e].kind = "enum" /\ Emitted[e].parent_class = "n1"

-----------------------------------------------------------------------------
\* the visited file with the failing declaration replaced by a node of a
\* type no branch handles (the sibling of the innermost declaration has the
\* type of that declaration: the replacement is not made there)
WithoutFailing ==
    [input EXCEPT !.fault = 0, !.chain[input.fault] = "ERROR"]

\* some table has a row with the name
HasRow(name) == \E t \in Tables : \E r \in 1..Len(store[t]) : store[t][r].name = name

(* C22: in the Kotlin and Zig visitors an error raised while recognizing,  *)
(* constructing or inserting the entity of a node is caught and dropped:   *)
(* the children of the node are visited with the context as it stood, the  *)
(* later nodes produce their entities, the traversal returns normally.     *)
C22_ErrorsDiscarded ==
    (input.kind = "visit" /\ input.fault > 0 /\ input.language \in {"kotlin", "zig"})
    => /\ ~result.raised
       /\ ~HasRow(DeclNode(input, input.fault).name)
       /\ \A i \in 1..Len(input.chain) : \A n \in DeclsAt(i) :
            n.name # DeclNode(input, input.fault).name => HasRow(n.name)
       /\ ~(input.twin /\ input.fault = Len(input.chain))
          => store = InsertAll(EmptyDb,
                               recursive_visit(input.language, RootNode(WithoutFailing),
                                               FilePath(input.language), NoContext).entries)

\* the branch of a Kotlin class raises: its member function and the
\* function nested in that one are inserted, the nested one naming the
\* member, and so is the declaration after the class
C22_Witness ==
    /\ input.kind = "visit" /\ input.language = "kotlin" /\ input.fault = 1
    /\ input.chain = <<"class_declaration", "function_declaration", "function_declaration">>
    /\ input.after = "function_declaration"
    /\ ~result.raised
    /\ Len(store["classes"]) = 0
    /\ \E f \in FunctionsNamed("n2") : ParentOf(store["functions"][f]) = None
    /\ \E f \in FunctionsNamed("n3") : store["functions"][f].parent_function = "n2"
    /\ FunctionsNamed("z1") # {}

-----------------------------------------------------------------------------
(* SpecUpdate: opens and updates of stores over trees that do not change.  *)

\* the builds a database may hold on top of its first one
MaxUpdates == 2

\* CKGDatabase.update() on the store a facade holds for p: the build runs
\* again over the tables as they are
update(p) ==
    /\ p \in DOMAIN ckg_databases
    /\ LET conn == ckg_databases[p].conn
           build == _construct_ckg(inodes[conn], p)
       IN  /\ Len(inodes[conn]["functions"]) <= MaxUpdates * Len(FullBuild(p).db["functions"])
           /\ inodes' = [inodes EXCEPT ![conn] = build.db]
           /\ result' = IF build.raised THEN Raised ELSE ToolExecResult(None, None)
    /\ last' = NoRun
    /\ UNCHANGED <<tree, clock, git_repo, head, status, storage_info, db_files,
                   ckg_databases, store, times, input>>

NextUpdate ==
    \/ Request
    \/ NewTool
    \/ \E p \in Paths : update(p)

SpecUpdate == Init /\ [][NextUpdate]_vars

(* C23: entities are created exactly once: after an open and any number of *)
(* further opens and updates on an unchanged tree every construct of the   *)
(* tree has exactly one row in its table (outside a git work tree, where   *)
(* every path has a database of its own).                                  *)
C23_ExactlyOneRow ==
    ~git_repo
    => \A p \in DOMAIN ckg_databases :
         LET db == inodes[ckg_databases[p].conn]
             built == FullBuild(p).db
         IN  \A t \in Tables : \A i \in 1..Len(built[t]) :
               Cardinality({j \in 1..Len(db[t]) : db[t][j] = built[t][i]}) = 1

-----------------------------------------------------------------------------
(* SpecRace: two processes run CKGDatabase.__init__ at once over trees     *)
(* that do not change.  The index file and the database files are shared;  *)
(* each step below is one access to them, and nothing orders the steps of  *)
(* one process against those of the other.                                 *)

Procs == {1, 2}

\* a process about to call CKGDatabase(codebase_path)
Process(codebase_path) ==
    [path |-> codebase_path, pc |-> "start", ckg_storage_info |-> <<>>,
     existing |-> "", database_path |-> "", found |-> FALSE, conn |-> 0,
     file |-> 0, built |-> FALSE, asked |-> None, answer |-> <<>>]

InitRace ==
    /\ tree = [p \in Paths |-> [f \in Files(p) |-> [mtime |-> 0, ok |-> TRUE]]]
    /\ clock = 0
    /\ git_repo \in BOOLEAN
    /\ head = 0
    /\ status = {}
    /\ storage_info = <<>>
    /\ db_files = <<>>
    /\ inodes = <<>>
    /\ ckg_databases = <<>>
    /\ result = ToolExecResult(None, None)
    /\ last = NoRun
    /\ store = EmptyDb
    /\ times = [now |-> 0, mtime |-> <<>>]
    /\ \E p1, p2 \in Paths :
         input = [kind |-> "processes", proc |-> [q \in Procs |-> Process(IF q = 1 THEN p1 ELSE p2)]]

\* the step of process q that leaves it as `me`; a step touches nothing but
\* the process and the shared files
Step(q, me) ==
    /\ input' = [input EXCEPT !.proc[q] = me]
    /\ UNCHANGED <<tree, clock, git_repo, head, status, ckg_databases, result, last,
                   store, times>>

\* json.load(storage_info.json) and the lookup of the path
read_index(q) ==
    LET me == input.proc[q]
    IN  /\ me.pc = "start"
        /\ Step(q, [me EXCEPT !.pc = "compare", !.ckg_storage_info = storage_info,
                              !.existing = IF me.path \in DOMAIN storage_info
                                           THEN storage_info[me.path] ELSE ""])
        /\ UNCHANGED <<storage_info, db_files, inodes>>

\* the comparison of the fingerprints; on a difference the unlink of the
\* old database and the dump of the process's copy of the index
compare(q) ==
    LET me == input.proc[q]
        current == get_folder_snapshot_hash(me.path, ProbeOk)
        info1 == Put(me.ckg_storage_info, me.path, current)
    IN  /\ me.pc = "compare"
        /\ IF me.existing = current
           THEN /\ Step(q, [me EXCEPT !.pc = "exists",
                                      !.database_path = get_ckg_database_path(me.existing)])
                /\ UNCHANGED <<storage_info, db_files, inodes>>
           ELSE /\ Step(q, [me EXCEPT !.pc = "exists", !.ckg_storage_info = info1,
                                      !.database_path = get_ckg_database_path(current)])
                /\ db_files' = Del(db_files, get_ckg_database_path(me.existing))
                /\ storage_info' = info1
                /\ UNCHANGED inodes

\* if database_path.exists()
exists(q) ==
    LET me == input.proc[q]
    IN  /\ me.pc = "exists"
        /\ Step(q, [me EXCEPT !.pc = "connect",
                              !.found = database_exists(db_files, me.database_path)])
        /\ UNCHANGED <<storage_info, db_files, inodes>>

\* sqlite3.connect: of the branch that found the file, which returns; of the
\* other branch, which creates the tables that are missing and goes on to
\* the build
connect(q) ==
    LET me == input.proc[q]
        there == me.database_path \in DOMAIN db_files
        ino == IF there THEN db_files[me.database_path] ELSE FreeInode
    IN  /\ me.pc = "connect"
        /\ there \/ \E i \in 1..MaxInodes : i \notin DOMAIN inodes
        /\ db_files' = Put(db_files, me.database_path, ino)
        /\ inodes' = IF there THEN inodes ELSE Put(inodes, ino, EmptyDb)
        /\ Step(q, [me EXCEPT !.pc = IF me.found THEN "done" ELSE "build",
                              !.conn = ino, !.file = 1])
        /\ UNCHANGED storage_info

\* one round of the loop of _construct_ckg: the visit of the next file
build(q) ==
    LET me == input.proc[q]
        f == FileOrder(me.path)[me.file]
        entries == recursive_visit_python(me.path \o "/" \o f, f, tree[me.path][f])
    IN  /\ me.pc = "build"
        /\ inodes' = [inodes EXCEPT ![me.conn] = InsertAll(@, entries)]
        /\ Step(q, [me EXCEPT !.file = @ + 1, !.built = TRUE,
                              !.pc = IF me.file = Len(FileOrder(me.path)) THEN "done" ELSE "build"])
        /\ UNCHANGED <<storage_info, db_files>>

\* a query on the store the constructor returned
query(q) ==
    LET me == input.proc[q]
    IN  /\ me.pc = "done"
        /\ \E identifier \in {"foo", "bar"} :
             Step(q, [me EXCEPT !.pc = "queried", !.asked = identifier,
                                !.answer = query_function(inodes[me.conn], identifier, "function")
                                           \o query_function(inodes[me.conn], identifier, "class_method")])
        /\ UNCHANGED <<storage_info, db_files, inodes>>

NextRace ==
    \/ \E q \in Procs : read_index(q)
    \/ \E q \in Procs : compare(q)
    \/ \E q \in Procs : exists(q)
    \/ \E q \in Procs : connect(q)
    \/ \E q \in Procs : build(q)
    \/ \E q \in Procs : query(q)

SpecRace == InitRace /\ [][NextRace]_vars

(* C24: nothing locks the database file: a process that checks for the     *)
(* file after another process has created it finds it, however far the     *)
(* other's build has come, and connects to that file and returns without   *)
(* building anything.                                                      *)
C24_SecondConnectsWithoutBuilding ==
    [][\A q \in Procs :
         LET me == input.proc[q]
             then == input'.proc[q]
         IN  /\ (me.pc = "exists" /\ then.pc = "connect" /\ me.database_path \in DOMAIN db_files)
                => then.found
             /\ (me.pc = "connect" /\ then.pc # "connect" /\ me.found)
                => /\ then.pc = "done"
                   /\ ~then.built
                   /\ inodes' = inodes
                   /\ then.conn = db_files[me.database_path]]_vars

\* both processes open /p1 with no database on disk; the second has found
\* the file of the first, has returned while the first is still building,
\* and its query for bar, which the tree defines, returned nothing
C24_Witness ==
    /\ input.kind = "processes"
    /\ input.proc[1].path = "/p1" /\ input.proc[2].path = "/p1"
    /\ input.proc[1].pc = "build" /\ input.proc[1].existing = ""
    /\ input.proc[2].pc = "queried" /\ input.proc[2].existing = ""
    /\ input.proc[2].found /\ ~input.proc[2].built
    /\ input.proc[2].conn = input.proc[1].conn
    /\ input.proc[2].asked = "bar" /\ input.proc[2].answer = <<>>
    /\ \E i \in 1..Len(FullBuild("/p1").db["functions"]) :
         FullBuild("/p1").db["functions"][i].name = "bar"

-----------------------------------------------------------------------------
(* C25: every entity of a store opened for path P was extracted from a     *)
(* file under P, whatever was indexed before: a database built for one     *)
(* path is never the store of another path.                                *)
C25_EntitiesUnderPath ==
    \A p \in DOMAIN ckg_databases :
      LET db == inodes[ckg_databases[p].conn]
      IN  \A t \in Tables : \A i \in 1..Len(db[t]) :
            StartsWith(db[t][i].file_path, p \o "/")

-----------------------------------------------------------------------------
(* SpecDirty: the store lifecycle of Spec, begun in a work tree that may   *)
(* already hold uncommitted changes.                                       *)

InitDirty ==
    /\ tree = [p \in Paths |-> [f \in Files(p) |-> [mtime |-> 0, ok |-> TRUE]]]
    /\ clock = 0
    /\ git_repo \in BOOLEAN
    /\ head = 0
    /\ status \in SUBSET {<<p, f>> : p \in Paths, f \in {"a.py", "b.py"}}
    /\ \A pf \in status : git_repo /\ pf[2] \in Files(pf[1])
    /\ storage_info = <<>>
    /\ db_files = <<>>
    /\ inodes = <<>>
    /\ ckg_databases = <<>>
    /\ result = ToolExecResult(None, None)
    /\ last = NoRun
    /\ store = EmptyDb
    /\ times = [now |-> 0, mtime |-> <<>>]
    /\ input = NoInput

SpecDirty == InitDirty /\ [][Next]_vars

\* every row of the database lies under p: the database was built from p
BuiltFrom(db, p) ==
    \A t \in Tables : \A i \in 1..Len(db[t]) : StartsWith(db[t][i].file_path, p \o "/")

(* C26: whenever an open reuses an existing database (built from the same  *)
(* path), the contents it indexed equal the current ones: every change of  *)
(* the tree changes the fingerprint, a further edit of a file with         *)
(* uncommitted changes included.  (Stated for trees every file of which    *)
(* can be visited.)                                                        *)
C26_ReusedIsCurrent ==
    [][\A p \in Paths :
        ( /\ OpenedFor(p)
          /\ ~last'.built
          /\ ~result'.raised
          /\ \A q \in Paths : \A f \in Files(q) : tree[q][f].ok
          /\ BuiltFrom(inodes'[ckg_databases'[p].conn], p) )
        => inodes'[ckg_databases'[p].conn] = FullBuild(p).db]_vars

-----------------------------------------------------------------------------
(* C27: while one path alone is opened, whatever changes the tree goes     *)
(* through between the opens, at most one database file is on disk, and it *)
(* is the one of the fingerprint the index records for the path: an open   *)
(* that meets a new fingerprint deletes the database of the old one.  (It  *)
(* holds after opens that raised as well.)                                 *)
C27_OneDatabasePerPath ==
    \A p \in Paths :
      DOMAIN storage_info = {p}
      => /\ Cardinality(DOMAIN db_files) <= 1
         /\ \A name \in DOMAIN db_files : name = get_ckg_database_path(storage_info[p])

\* /p1 alone was opened, before and after an edit: the second database (the
\* first one had inode 1) is the only file, named by the current fingerprint
C27_Witness ==
    /\ DOMAIN storage_info = {"/p1"}
    /\ clock = 1
    /\ storage_info["/p1"] = Fingerprint("/p1")
    /\ DOMAIN db_files = {get_ckg_database_path(Fingerprint("/p1"))}
    /\ db_files[get_ckg_database_path(Fingerprint("/p1"))] = 2
    /\ 1 \notin DOMAIN inodes
    /\ ~result.raised

-----------------------------------------------------------------------------
(* SpecLambda: the JavaScript, Gleam, Swift and Solidity visitors over     *)
(* files of function nodes, with or without a name, side by side or one    *)
(* within the other.                                                       *)

\* the function nodes of a file
MaxFunctions == 2
\* the lines of a file
MaxLine == 2

LambdaLanguages == {"javascript", "gleam", "swift", "solidity"}

\* the forms a function node takes: its type, the type of its parent node,
\* and whether it has a name child
Forms(language) ==
    CASE language = "javascript" ->
           {<<"function_declaration", "program", TRUE>>,
            <<"function_expression", "arguments", FALSE>>,
            <<"function_expression", "assignment_expression", FALSE>>,
            <<"arrow_function", "arguments", FALSE>>,
            <<"arrow_function", "variable_declarator", FALSE>>}
      [] language = "gleam" ->
           {<<"function_definition", "source_file", TRUE>>,
            <<"anonymous_function", "arguments", FALSE>>}
      [] language = "swift" ->
           {<<"function_declaration", "source_file", TRUE>>,
            <<"function_declaration", "source_file", FALSE>>,
            <<"init_declaration", "class_body", FALSE>>,
            <<"deinit_declaration", "class_body", FALSE>>}
      [] language = "solidity" ->
           {<<"function_definition", "contract_body", TRUE>>,
            <<"function_definition", "contract_body", FALSE>>,
            <<"constructor_definition", "contract_body", FALSE>>,
            <<"modifier_definition", "contract_body", TRUE>>}

RECURSIVE FunctionNodes(_, _)
\* the syntax nodes of the functions from the i-th on: each is a child of
\* the one before it (nested) or all are children of the root
FunctionNodes(src, i) ==
    IF i > Len(src.functions) THEN <<>>
    ELSE LET fn == src.functions[i]
             rest == FunctionNodes(src, i + 1)
             node == [type |-> fn.form[1],
                      name |-> IF fn.form[3] THEN "f" \o ToString(i) ELSE None,
                      start_line |-> fn.line, end_line |-> IF src.nested THEN MaxLine ELSE fn.line,
                      parent |-> [type |-> fn.form[2], name |-> "v" \o ToString(i)],
                      children |-> IF src.nested THEN rest ELSE <<>>, fails |-> FALSE]
         IN  IF src.nested THEN <<node>> ELSE <<node>> \o rest

\* tree.root_node of the file
LambdaRoot(src) ==
    [type |-> IF src.language = "javascript" THEN "program" ELSE "source_file",
     name |-> "", start_line |-> 1, end_line |-> MaxLine,
     parent |-> [type |-> None, name |-> None],
     children |-> FunctionNodes(src, 1), fails |-> FALSE]

LambdaPath(language) ==
    CASE language = "javascript" -> "/p/app.js"
      [] language = "gleam" -> "/p/app.gleam"
      [] language = "swift" -> "/p/app.swift"
      [] language = "solidity" -> "/p/app.sol"

InitLambda ==
    /\ tree = [p \in Paths |-> [f \in Files(p) |-> [mtime |-> 0, ok |-> TRUE]]]
    /\ clock = 0
    /\ git_repo = FALSE
    /\ head = 0
    /\ status = {}
    /\ storage_info = <<>>
    /\ db_files = <<>>
    /\ inodes = <<>>
    /\ ckg_databases = <<>>
    /\ result = ToolExecResult(None, None)
    /\ last = NoRun
    /\ store = EmptyDb
    /\ times = [now |-> 0, mtime |-> <<>>]
    /\ \E language \in LambdaLanguages : \E n \in 1..MaxFunctions :
         \E functions \in [1..n -> [form : Forms(language), line : 1..MaxLine]] :
           \E nested \in BOOLEAN :
             /\ \A i \in 1..(n - 1) : functions[i].line <= functions[i + 1].line
             /\ input = [kind |-> "script", language |-> language,
                         functions |-> functions, nested |-> nested]

\* the visit of the file into an empty store
VisitScript ==
    /\ input.kind = "script"
    /\ input' = [input EXCEPT !.kind = "visited"]
    /\ LET done == recursive_visit(input.language, LambdaRoot(input),
                                   LambdaPath(input.language), NoContext)
       IN  /\ store' = InsertAll(EmptyDb, done.entries)
           /\ result' = IF done.raised THEN Raised ELSE ToolExecResult(None, None)
    /\ UNCHANGED <<tree, clock, git_repo, head, status, storage_info, db_files, inodes,
                   ckg_databases, last, times>>

NextLambda == VisitScript

SpecLambda == InitLambda /\ [][NextLambda]_vars

\* the node i of the file gets a synthesized name
Anonymous(i) == input.functions[i].form[2] = "arguments"

(* C28: the names synthesized for anonymous functions are unique within a  *)
(* file: two distinct anonymous function nodes never get the same name, so *)
(* no two rows of the file carry the same synthesized name.                *)
C28_SynthesizedNamesUnique ==
    input.kind = "visited"
    => /\ Len(store["functions"]) = Len(input.functions)
       /\ \A i, j \in 1..Len(input.functions) :
            (i # j /\ Anonymous(i) /\ Anonymous(j))
            => store["functions"][i].name # store["functions"][j].name

(* C29: every entity a visitor inserts has a name that is not empty, also  *)
(* when the node has no name child: a name is synthesized then.            *)
C29_NamesNotEmpty ==
    input.kind = "visited"
    => \A t \in Tables : \A i \in 1..Len(store[t]) : store[t][i].name # ""

-----------------------------------------------------------------------------
(* SpecInsert: _insert_entry applied to one entry of any kind, its fields  *)
(* set or None.                                                            *)

\* the fields a dataclass of base.py adds to name, file_path, body,
\* start_line and end_line
KindFields ==
    [function |-> {"parent_function", "parent_class"},
     class |-> {"fields", "methods"},
     enum |-> {"variants", "parent_class"},
     interface |-> {"methods", "properties"},
     struct |-> {"fields", "methods"},
     trait |-> {"methods", "associated_types"},
     module |-> {"exports", "imports"},
     namespace |-> {"members"},
     type_alias |-> {"target_type"},
     component |-> {"props", "methods", "template"},
     contract |-> {"functions", "events", "modifiers", "state_variables"},
     extension |-> {"extended_type", "methods"},
     union |-> {"variants"},
     generic_type |-> {"type_parameters", "constraints"}]

BaseFields == {"name", "file_path", "body", "start_line", "end_line"}

\* an instance of the dataclass of the kind
Entry(kind, name, values) ==
    [f \in {"kind"} \cup BaseFields \cup KindFields[kind] |->
        CASE f = "kind" -> kind
          [] f = "name" -> name
          [] f = "file_path" -> "/p/a.x"
          [] f = "body" -> kind \o " " \o name
          [] f = "start_line" -> 1
          [] f = "end_line" -> 2
          [] OTHER -> values[f]]

\* the column of its table that holds a field of an entry
ColumnOf(kind, field) ==
    CASE kind = "enum" /\ field = "variants" -> "enum_values"
      [] kind = "union" /\ field = "variants" -> "fields"
      [] OTHER -> field

InitInsert ==
    /\ tree = [p \in Paths |-> [f \in Files(p) |-> [mtime |-> 0, ok |-> TRUE]]]
    /\ clock = 0
    /\ git_repo = FALSE
    /\ head = 0
    /\ status = {}
    /\ storage_info = <<>>
    /\ db_files = <<>>
    /\ inodes = <<>>
    /\ ckg_databases = <<>>
    /\ result = ToolExecResult(None, None)
    /\ last = NoRun
    /\ store = EmptyDb
    /\ times = [now |-> 0, mtime |-> <<>>]
    /\ \E kind \in DOMAIN KindFields : \E name \in {"A", "b"} :
         \E values \in [KindFields[kind] -> {None, "- x"}] :
           input = [kind |-> "insert", entry |-> Entry(kind, name, values)]

\* ckg_db._insert_entry(entry) on a store with empty tables
Insert ==
    /\ input.kind = "insert"
    /\ input' = [input EXCEPT !.kind = "inserted"]
    /\ store' = _insert_entry(store, input.entry)
    /\ UNCHANGED <<tree, clock, git_repo, head, status, storage_info, db_files, inodes,
                   ckg_databases, result, last, times>>

NextInsert == Insert

SpecInsert == InitInsert /\ [][NextInsert]_vars

(* C30: the insert is lossless for every kind of entity: the row written   *)
(* to the table of the kind has a column for every field of the entry and  *)
(* the column holds the field's value.                                     *)
C30_InsertLossless ==
    input.kind = "inserted"
    => LET entry == input.entry
           rows == store[TableOf(entry)]
       IN  /\ Len(rows) = 1
           /\ \A field \in (DOMAIN entry) \ {"kind"} :
                /\ ColumnOf(entry.kind, field) \in DOMAIN rows[1]
                /\ rows[1][ColumnOf(entry.kind, field)] = entry[field]

\* the same for the fields that have a column: they are written unchanged
C30_ColumnsWritten ==
    input.kind = "inserted"
    => LET entry == input.entry
           rows == store[TableOf(entry)]
       IN  /\ Len(rows) = 1
           /\ \A field \in (DOMAIN entry) \ {"kind"} :
                ColumnOf(entry.kind, field) \in DOMAIN rows[1]
                => rows[1][ColumnOf(entry.kind, field)] = entry[field]

=============================================================================
